---- MODULE Spec2Model ----
(***************************************************************************)
(* Predict Radar worker: the per-minute pipeline (snapshot ingestion,      *)
(* market profiling, delta computation, classification, alerting), the     *)
(* scheduler that drives it, and the relational store the stages share.    *)
(*                                                                         *)
(* Units.  Time is counted in whole minutes.  A probability p in [0,1] is  *)
(* the integer p * 100000; a delta in percentage points is the integer     *)
(* pp * 100 (two decimals); a score is the integer score * 100; a          *)
(* confidence c in [0,1] is the integer c * 100.  A nullable SQL / JS      *)
(* value is <<>> (null) or <<v>>.                                          *)
(***************************************************************************)
EXTENDS Integers, Sequences, FiniteSets, TLC

\* ---------------------------------------------------------------- bounds
\* Minutes of wall clock and invocations of cycle() explored, per specification.
SchedMaxTime == 2
SchedMaxCycles == 3
AlertMaxTime == 3
AlertMaxCycles == 4
StoreMaxTime == 2
StoreMaxCycles == 2
\* The invocations of cycle() a behaviour can hold; each run observes at most
\* its own maxCycles of them.
MaxInvocations == 4

\* The last minute of the snapshot histories the delta engine is run over.
DeltaMaxTick == 6

\* The minutes and invocations over which re-runs of the pipeline are observed.
IdemMaxTime == 1

IdemMaxCycles == 3

\* The latest tick of the database the movers endpoint is asked over.
MoversTick == 1

\* The minute at which the classifier is run over a stored outcome.
ClassifierTick == 1

\* The minute at which the alerter is run over a stored history.
AlerterTick == 30

\* Observation of the profiler: past one reload interval of the classifier.
ProfilerMaxTime == 11

\* Observation of the worker while the movers endpoint is read.
ReadMaxTime == 1

ReadMaxCycles == 2

\* Observation of the traced ingestion.
IngestMaxTime == 1

IngestMaxCycles == 2

\* LIMIT of the profiling batch (600 in the code, scaled to the modelled markets).
ProfileLimit == 1

\* Opinion: milliseconds between two request starts.
REQUEST_SPACING_MS == 70

\* Opinion: attempts of one request.
MaxAttempts == 4

\* Opinion: milliseconds of back-off per attempt made.
BackoffMs == 500

\* Opinion: markets per listing page (20 in the code, scaled).
PAGE_SIZE == 2

\* Opinion: the listing stops before this page (200 in the code, scaled).
PageCap == 3

\* Milliseconds by which a timer may fire after it is due.
LateMs == 35

\* Observation of one Opinion fetchSnapshots, in milliseconds.
OpinionMaxMs == 20000

\* Timers that fire late in one Opinion fetchSnapshots.
MaxLate == 1

\* The markets of the store whose pages are compared (one more than a page).
TiedMarkets == 11

\* The 429s the chat server answers to one invocation.
Max429 == 3

\* The worker with endpoints that may not answer: minutes and invocations.
HttpMaxTime == 2
HttpMaxCycles == 3

\* Polymarket: order-book requests in flight (16 in the code, scaled).
CLOB_CONCURRENCY == 2

\* Polymarket: token ids of one listing.
MaxTokens == 4

\* Starts of the worker against one database.
MaxRuns == 3

\* Connections the pool loses while migrating.
MaxConnLosses == 1

\* getModel(): minutes between two reads of the file while a model is cached.
ModelReloadMinutes == 10

\* getModel(): minutes between two reads of the file while none is cached.
ModelRetryMinutes == 1

\* lastModelCheckMs = 0 is the epoch: longer before the start of the process
\* than either interval.
NeverChecked == 0 - ModelReloadMinutes

\* --------------------------------------------------- nullable and helpers
NULL == <<>>

Some(v) == <<v>>

IsNull(x) == x = <<>>

Coalesce(x, d) == IF x = <<>> THEN d ELSE x[1]

Abs(n) == IF n < 0 THEN -n ELSE n

Max2(a, b) == IF a >= b THEN a ELSE b

Min2(a, b) == IF a <= b THEN a ELSE b

SetMax(S) == CHOOSE m \in S : \A o \in S : o <= m

Range(s) == {s[i] : i \in DOMAIN s}

\* ROUND(x::numeric, 2) of x = n / d pp*100 units: half away from zero.
RoundHalfAway(n, d) ==
    IF n >= 0 THEN (2 * n + d) \div (2 * d) ELSE -((2 * (-n) + d) \div (2 * d))

\* ------------------------------------------------------------- the world
\* The outcomes the providers quote: one market per provider.
KeyOf(r) == [provider |-> r.provider, market_id |-> r.market_id, outcome_id |-> r.outcome_id]

MarketKeyOf(r) == [provider |-> r.provider, market_id |-> r.market_id]

PolyKey == [provider |-> "polymarket", market_id |-> "m1", outcome_id |-> "yes"]

KalshiKey == [provider |-> "kalshi", market_id |-> "m2", outcome_id |-> "yes"]

Keys == {PolyKey, KalshiKey}

Providers == <<"polymarket", "kalshi", "opinion">>

\* Probabilities a provider may quote (units of 1e-5).
Probs == {40000, 50000}

\* The fields of a quote that do not change from tick to tick.
QuoteInfo(k) ==
    IF k = PolyKey
    THEN [outcomeLabel |-> "Yes", marketTitle |-> {"senate", "vote"}, rawCategory |-> Some("politics"),
          normalizedCategory |-> "politics", spreadPp |-> Some(500),
          volume24hUsd |-> Some(50000), liquidityUsd |-> Some(10000)]
    ELSE [outcomeLabel |-> "Yes", marketTitle |-> {"btc", "above", "100k"}, rawCategory |-> NULL,
          normalizedCategory |-> "crypto", spreadPp |-> NULL,
          volume24hUsd |-> NULL, liquidityUsd |-> NULL]

\* OutcomeSnapshot as an adapter emits it for tick ts.
OutcomeSnapshot(k, p, ts) ==
    [provider |-> k.provider, marketId |-> k.market_id, outcomeId |-> k.outcome_id,
     outcomeLabel |-> QuoteInfo(k).outcomeLabel, marketTitle |-> QuoteInfo(k).marketTitle,
     rawCategory |-> QuoteInfo(k).rawCategory,
     normalizedCategory |-> QuoteInfo(k).normalizedCategory,
     probability |-> p, spreadPp |-> QuoteInfo(k).spreadPp,
     volume24hUsd |-> QuoteInfo(k).volume24hUsd, liquidityUsd |-> QuoteInfo(k).liquidityUsd,
     timestamp |-> ts]

\* ------------------------------------------------------------- the store
\* INSERT ... ON CONFLICT (pk) DO UPDATE: the row replaces the one with its key.
Upsert(table, row, pk(_)) == {r \in table : pk(r) # pk(row)} \cup {row}

TsKeyOf(r) == [ts_minute |-> r.ts_minute, provider |-> r.provider,
               market_id |-> r.market_id, outcome_id |-> r.outcome_id]

MaxTs(table) == IF table = {} THEN NULL ELSE Some(SetMax({r.ts_minute : r \in table}))

\* ------------------------------------------------ snapshot store (upsertSnapshot)
\* The updated_at columns are left out: no stage reads them.
MarketRowOf(s) ==
    [provider |-> s.provider, market_id |-> s.marketId, title |-> s.marketTitle,
     raw_category |-> s.rawCategory, normalized_category |-> s.normalizedCategory,
     status |-> "open"]

OutcomeRowOf(s) ==
    [provider |-> s.provider, market_id |-> s.marketId, outcome_id |-> s.outcomeId,
     label |-> s.outcomeLabel]

SnapshotRowOf(s) ==
    [ts_minute |-> s.timestamp, provider |-> s.provider, market_id |-> s.marketId,
     outcome_id |-> s.outcomeId, probability |-> s.probability, spread_pp |-> s.spreadPp,
     volume_24h_usd |-> s.volume24hUsd, liquidity_usd |-> s.liquidityUsd,
     market_title |-> s.marketTitle, raw_category |-> s.rawCategory,
     normalized_category |-> s.normalizedCategory]

\* ON CONFLICT (provider, market_id) DO UPDATE keeps the stored status.
UpsertMarket(mk, s) ==
    LET old == {r \in mk : MarketKeyOf(r) = MarketKeyOf(MarketRowOf(s))}
        row == IF old = {} THEN MarketRowOf(s)
               ELSE [MarketRowOf(s) EXCEPT !.status = (CHOOSE r \in old : TRUE).status]
    IN  Upsert(mk, row, MarketKeyOf)

UpsertOutcome(oc, s) == Upsert(oc, OutcomeRowOf(s), KeyOf)

UpsertSnapshotRow(sn, s) == Upsert(sn, SnapshotRowOf(s), TsKeyOf)

\* ------------------------------------------------------ delta engine
WindowKeys == <<"1m", "5m", "10m", "30m", "1h", "6h", "12h", "24h">>

WINDOW_SPECS ==
    <<[key |-> "1m", minutes |-> 1], [key |-> "5m", minutes |-> 5],
      [key |-> "10m", minutes |-> 10], [key |-> "30m", minutes |-> 30],
      [key |-> "1h", minutes |-> 60], [key |-> "6h", minutes |-> 360],
      [key |-> "12h", minutes |-> 720], [key |-> "24h", minutes |-> 1440]>>

WindowIndex(w) == CHOOSE i \in DOMAIN WINDOW_SPECS : WINDOW_SPECS[i].key = w

WindowMinutes(w) == WINDOW_SPECS[WindowIndex(w)].minutes

\* The reference snapshot has to be strictly older than the window.
LateralProbabilityStrict(sn, b, minutes) ==
    LET prior == {s2 \in sn : KeyOf(s2) = KeyOf(b) /\ s2.ts_minute < b.ts_minute - minutes}
    IN  IF prior = {} THEN NULL
        ELSE Some((CHOOSE s2 \in prior : \A o \in prior : o.ts_minute <= s2.ts_minute).probability)

\* LEFT JOIN LATERAL ... ts_minute <= b.ts_minute - interval, ORDER BY ts_minute DESC LIMIT 1
LateralProbability(sn, b, minutes) ==
    LET prior == {s2 \in sn : KeyOf(s2) = KeyOf(b) /\ s2.ts_minute <= b.ts_minute - minutes}
    IN  IF prior = {} THEN NULL
        ELSE Some((CHOOSE s2 \in prior : \A o \in prior : o.ts_minute <= s2.ts_minute).probability)

\* CASE WHEN w.probability IS NULL THEN NULL ELSE ROUND(((b.p - w.p) * 100)::numeric, 2)
DeltaValue(sn, b, minutes) ==
    LET w == LateralProbability(sn, b, minutes)
    IN  IF IsNull(w) THEN NULL ELSE Some(RoundHalfAway(b.probability - w[1], 10))

\* The row is stamped with the minute after the base snapshot's.
DeltaRowOfNextMinute(sn, b) ==
    [ts_minute |-> b.ts_minute + 1, provider |-> b.provider, market_id |-> b.market_id,
     outcome_id |-> b.outcome_id,
     delta |-> [w \in Range(WindowKeys) |->
                  DeltaValue(sn, b, WindowMinutes(w))]]

\* SELECT b.ts_minute, b.provider, b.market_id, b.outcome_id, <the deltas> FROM base b
DeltaRowOf(sn, b) ==
    [ts_minute |-> b.ts_minute, provider |-> b.provider, market_id |-> b.market_id,
     outcome_id |-> b.outcome_id,
     delta |-> [w \in Range(WindowKeys) |->
                  DeltaValue(sn, b, WindowMinutes(w))]]

\* base holds the last snapshot of every outcome, taken as of the latest tick.
DeltaBaseCarried(sn) ==
    {[s EXCEPT !.ts_minute = MaxTs(sn)[1]] :
       s \in {x \in sn : \A y \in sn : KeyOf(y) = KeyOf(x) => y.ts_minute <= x.ts_minute}}

\* WITH latest AS (SELECT MAX(ts_minute)), base AS (snapshots at latest)
DeltaBase(sn) == {s \in sn : Some(s.ts_minute) = MaxTs(sn)}

\* On conflict the new delta is added to the stored one.
BuildDeltaInsertAdding(sn, dl) ==
    LET new == {DeltaRowOf(sn, b) : b \in DeltaBase(sn)}
        merged(n) ==
            LET old == {d \in dl : TsKeyOf(d) = TsKeyOf(n)}
            IN  IF old = {} THEN n
                ELSE [n EXCEPT !.delta =
                        [w \in DOMAIN n.delta |->
                           LET o == (CHOOSE d \in old : TRUE).delta[w]
                           IN  IF IsNull(o) \/ IsNull(n.delta[w]) THEN n.delta[w]
                               ELSE Some(o[1] + n.delta[w][1])]]
    IN  {d \in dl : \A n \in new : TsKeyOf(n) # TsKeyOf(d)} \cup {merged(n) : n \in new}

\* The one INSERT ... SELECT ... ON CONFLICT DO UPDATE statement of runDeltaComputation.
BuildDeltaInsert(sn, dl) ==
    LET new == {DeltaRowOf(sn, b) : b \in DeltaBase(sn)}
    IN  {d \in dl : \A n \in new : TsKeyOf(n) # TsKeyOf(d)} \cup new

\* ------------------------------------------------------ market profiler
\* A market text is the set of its lower-cased tokens; a keyword or pattern
\* hits a text when one of its tokens is in the set.
CRYPTO_KEYWORDS == {"btc", "bitcoin", "eth", "ethereum", "sol", "solana", "crypto", "token", "altcoin"}

PRICE_ANCHOR_KEYWORDS == {"above", "below", "over", "under", "at least", ">=", "<=", "$"}

SPORTS_KEYWORDS ==
    {"vs", "mlb", "nba", "nfl", "nhl", "soccer", "football", "baseball", "basketball",
     "tennis", "match", "game", "quarter", "inning", "halftime", "overtime"}

LIVE_SCORE_PATTERNS ==
    {"point", "points", "run", "runs", "goal", "goals", "rebound", "rebounds", "assist",
     "assists", "yard", "yards", "spread", "score"}

TEAM_NEWS_PATTERNS ==
    {"injury", "injuries", "injured", "questionable", "probable", "doubtful", "trade",
     "traded", "waive", "waived", "signed", "signing", "suspended"}

MACRO_PATTERNS == {"cpi", "fomc", "nonfarm", "payroll", "payrolls", "gdp", "fed", "inflation"}

POLICY_PATTERNS ==
    {"sec", "cftc", "etf", "regulation", "regulatory", "law", "lawsuit", "court", "ban",
     "banned", "bill", "vote", "voting"}

CRYPTO_NEWS_PATTERNS ==
    {"hack", "hacked", "hacking", "exploit", "breach", "airdrop", "listing", "listed",
     "delist", "delisted", "mainnet", "upgrade", "bridge", "etf", "sec"}

\* The tokens of the modelled titles that hold a digit (/\d/.test(text)).
DigitTokens == {"100k"}

includesAny(text, keywords) == text \cap keywords # {}

matchesAny(text, patterns) == text \cap patterns # {}

anchorTypeInsiderPossible(anchorType) ==
    anchorType \notin {"spot_price_anchored", "live_score_anchored"}

\* model is NULL or <<[anchorType, confidence]>>: the prediction the loaded
\* classifier gives for the row's text.
classifyAnchor(row, model) ==
    LET text == row.title
        category == row.normalized_category
        isCryptoContext == category = "crypto" \/ includesAny(text, CRYPTO_KEYWORDS)
        isSportsContext == category = "sports" \/ includesAny(text, SPORTS_KEYWORDS)
        hasPriceWords == includesAny(text, PRICE_ANCHOR_KEYWORDS)
        hasNumbers == text \cap DigitTokens # {}
        predicted == model[1].anchorType
        gated == IF predicted = "spot_price_anchored" /\ ~isCryptoContext THEN "other_unknown"
                 ELSE IF predicted = "live_score_anchored" /\ ~isSportsContext THEN "other_unknown"
                 ELSE predicted
    IN  IF isCryptoContext /\ hasPriceWords /\ hasNumbers
        THEN [anchorType |-> "spot_price_anchored", insiderPossible |-> FALSE, confidence |-> 95]
        ELSE IF isSportsContext /\ matchesAny(text, LIVE_SCORE_PATTERNS)
                /\ ~matchesAny(text, TEAM_NEWS_PATTERNS)
        THEN [anchorType |-> "live_score_anchored", insiderPossible |-> FALSE, confidence |-> 95]
        ELSE IF ~IsNull(model) /\ model[1].confidence >= 55
        THEN [anchorType |-> gated, insiderPossible |-> anchorTypeInsiderPossible(gated),
              confidence |-> model[1].confidence]
        ELSE IF matchesAny(text, MACRO_PATTERNS)
        THEN [anchorType |-> "scheduled_macro_release", insiderPossible |-> TRUE, confidence |-> 80]
        ELSE IF isCryptoContext /\ matchesAny(text, CRYPTO_NEWS_PATTERNS)
                /\ ~matchesAny(text, LIVE_SCORE_PATTERNS)
        THEN [anchorType |-> "crypto_news_security", insiderPossible |-> TRUE, confidence |-> 80]
        ELSE IF isSportsContext /\ matchesAny(text, TEAM_NEWS_PATTERNS)
        THEN [anchorType |-> "sports_team_news", insiderPossible |-> TRUE, confidence |-> 80]
        ELSE IF matchesAny(text, POLICY_PATTERNS)
        THEN [anchorType |-> "policy_regulatory_decision", insiderPossible |-> TRUE, confidence |-> 65]
        ELSE [anchorType |-> "other_unknown", insiderPossible |-> TRUE, confidence |-> 30]

RULES_MODEL_VERSION == "anchor-rules-v1"

HYBRID_MODEL_VERSION == "anchor-hybrid-nb-v1"

\* ORDER BY m.provider, m.market_id (text order of the modelled identifiers).
ProviderOrder == <<"kalshi", "opinion", "polymarket">>

MarketIdOrder == <<"m1", "m2">>

IndexOf(seq, x) == CHOOSE i \in DOMAIN seq : seq[i] = x

MarketBefore(a, b) ==
    \/ IndexOf(ProviderOrder, a.provider) < IndexOf(ProviderOrder, b.provider)
    \/ /\ a.provider = b.provider
       /\ IndexOf(MarketIdOrder, a.market_id) < IndexOf(MarketIdOrder, b.market_id)

\* The set S of market rows as the sequence ordered by MarketBefore.
RECURSIVE SortMarkets(_)
SortMarkets(S) ==
    IF S = {} THEN <<>>
    ELSE LET first == CHOOSE x \in S : \A y \in S \ {x} : MarketBefore(x, y)
         IN  <<first>> \o SortMarkets(S \ {first})

Take(seq, n) == SubSeq(seq, 1, Min2(n, Len(seq)))

\* The SELECT leaves out `OR p.model_version <> $1` with a model as well.
ProfilingRowsNewOnly(mk, pf, model, limit) ==
    Take(SortMarkets({m \in mk : ~\E q \in pf : MarketKeyOf(q) = MarketKeyOf(m)}), limit)

\* The SELECT of runMarketProfiling: markets without a profile (or, with a
\* loaded model, with a profile of another version), ordered, LIMIT limit.
ProfilingRows(mk, pf, model, limit) ==
    LET desired == IF IsNull(model) THEN RULES_MODEL_VERSION ELSE HYBRID_MODEL_VERSION
        todo == {m \in mk :
                   LET p == {q \in pf : MarketKeyOf(q) = MarketKeyOf(m)}
                   IN  \/ p = {}
                       \/ ~IsNull(model) /\ \E q \in p : q.model_version # desired}
    IN  Take(SortMarkets(todo), limit)

\* model.predict(enriched): a loaded model is <<[predict |-> f]>>, f giving
\* the prediction for each title.
PredictionOf(model, row) == IF IsNull(model) THEN NULL ELSE Some(model[1].predict[row.title])

\* The model that predicts `prediction` for every title (NULL: no model).
ConstantModel(titles, prediction) ==
    IF IsNull(prediction) THEN NULL ELSE Some([predict |-> [t \in titles |-> prediction[1]]])

ProfileRowOf(row, model) ==
    LET profile == classifyAnchor(row, PredictionOf(model, row))
    IN  [provider |-> row.provider, market_id |-> row.market_id,
         anchor_type |-> profile.anchorType, insider_possible |-> profile.insiderPossible,
         confidence |-> profile.confidence,
         model_version |-> IF IsNull(model) THEN RULES_MODEL_VERSION ELSE HYBRID_MODEL_VERSION]

UpsertProfile(pf, row, model) == Upsert(pf, ProfileRowOf(row, model), MarketKeyOf)

\* ------------------------------------------------------ external signals
Symbols == {"BTCUSDT", "ETHUSDT"}

\* Spot prices the price source may report.
SpotPrices == {0, 100, 101}

\* ((current - prev) / prev) * 100 in units of 0.01 %, truncated toward zero.
PctOf(current, prev) ==
    IF current >= prev THEN ((current - prev) * 10000) \div prev
    ELSE -(((prev - current) * 10000) \div prev)

\* computePctChange: the value returned for previous price prev (NULL: none stored).
computePctChange(prev, current) ==
    IF IsNull(prev) THEN NULL
    ELSE IF prev[1] = 0 THEN NULL
    ELSE Some(PctOf(current, prev[1]))

\* fetched: [Symbols -> NULL or <<price>>], what fetchSymbol returned.
ExternalSignalsOf(prices, fetched) ==
    [btc1mPct |-> IF IsNull(fetched["BTCUSDT"]) THEN NULL
                  ELSE computePctChange(prices["BTCUSDT"], fetched["BTCUSDT"][1]),
     eth1mPct |-> IF IsNull(fetched["ETHUSDT"]) THEN NULL
                  ELSE computePctChange(prices["ETHUSDT"], fetched["ETHUSDT"][1])]

\* The stored price of a symbol whose fetch failed is dropped.
PricesAfterCleared(prices, fetched) == fetched

\* previousPrices after fetchExternalSignals: set only for a fetched symbol.
PricesAfter(prices, fetched) ==
    [y \in Symbols |-> IF IsNull(fetched[y]) THEN prices[y] ELSE fetched[y]]

\* ------------------------------------------------------ classifier
cryptoWords == {"btc", "bitcoin", "eth", "ethereum", "sol", "crypto", "price"}

sportsWords == {"vs", "mlb", "nba", "nfl", "score", "goal", "inning", "match", "game"}

isCryptoLinked(title) == title \cap cryptoWords # {}

\* No title is taken for a sports title.
isSportsLinkedNever(title) == FALSE

isSportsLinked(title) == title \cap sportsWords # {}

\* Only the lower end is clamped.
clampScoreFloor(value) == Max2(0, value)

clampScore(value) == Max2(0, Min2(10000, value))

AnchorTypes ==
    {"spot_price_anchored", "live_score_anchored", "scheduled_macro_release",
     "policy_regulatory_decision", "sports_team_news", "crypto_news_security", "other_unknown"}

\* No stored anchor type is recognised.
asAnchorTypeNone(value) == NULL

asAnchorType(value) == IF ~IsNull(value) /\ value[1] \in AnchorTypes THEN value ELSE NULL

ProfileOf(pf, d) == {q \in pf : MarketKeyOf(q) = MarketKeyOf(d)}

ClassificationInputRow(d, m, s, pf) ==
    [ts_minute |-> d.ts_minute, provider |-> d.provider, market_id |-> d.market_id,
     outcome_id |-> d.outcome_id, title |-> m.title,
     normalized_category |-> m.normalized_category, spread_pp |-> s.spread_pp,
     volume_24h_usd |-> s.volume_24h_usd, liquidity_usd |-> s.liquidity_usd,
     delta_1m |-> d.delta["1m"], delta_24h |-> d.delta["24h"],
     anchor_type |-> IF ProfileOf(pf, d) = {} THEN NULL
                     ELSE Some((CHOOSE q \in ProfileOf(pf, d) : TRUE).anchor_type),
     profile_confidence |-> IF ProfileOf(pf, d) = {} THEN NULL
                     ELSE Some((CHOOSE q \in ProfileOf(pf, d) : TRUE).confidence)]

Lookup(table, pk(_), key) == {r \in table : pk(r) = key}

TheRow(table, pk(_), key) == CHOOSE r \in table : pk(r) = key

\* The rows of runClassification's SELECT for tick ts:
\* deltas JOIN markets JOIN snapshots_1m LEFT JOIN market_profiles.
ClassificationInputRows(dl, mk, sn, pf, ts) ==
    {ClassificationInputRow(d, TheRow(mk, MarketKeyOf, MarketKeyOf(d)),
                            TheRow(sn, TsKeyOf, TsKeyOf(d)), pf) :
       d \in {x \in dl : /\ x.ts_minute = ts
                         /\ Lookup(mk, MarketKeyOf, MarketKeyOf(x)) # {}
                         /\ Lookup(sn, TsKeyOf, TsKeyOf(x)) # {}}}

\* A tie goes to exogenous_arbitrage.
labelOfStrict(opaqueScore, exogenousScore) ==
    IF opaqueScore > exogenousScore /\ opaqueScore >= 5000 THEN "opaque_info_sensitive"
    ELSE IF exogenousScore >= 5000 THEN "exogenous_arbitrage" ELSE "unclear"

\* const label = opaqueScore >= exogenousScore && opaqueScore >= 50 ? ... : ...
labelOf(opaqueScore, exogenousScore) ==
    IF opaqueScore >= exogenousScore /\ opaqueScore >= 5000 THEN "opaque_info_sensitive"
    ELSE IF exogenousScore >= 5000 THEN "exogenous_arbitrage" ELSE "unclear"

\* The scores, tags and label the loop body of runClassification computes for
\* one row; every rule is applied in the order of the code.
Classify(row, external) ==
    LET title == row.title
        abs1m == Abs(Coalesce(row.delta_1m, 0))
        anchorType == asAnchorType(row.anchor_type)
        anchor == Coalesce(anchorType, "none")
        profileConfidence == Max2(0, Min2(100, Coalesce(row.profile_confidence, 0)))
        normalizedCategory == row.normalized_category
        conf == IF profileConfidence > 0 THEN profileConfidence ELSE 70
        unknown == IsNull(anchorType) \/ anchor = "other_unknown"
        isCryptoContext == normalizedCategory = "crypto" \/ isCryptoLinked(title)
        move == Max2(Abs(Coalesce(external.btc1mPct, 0)), Abs(Coalesce(external.eth1mPct, 0)))
        anchored == anchor \in {"live_score_anchored", "spot_price_anchored"}
        \* each rule: <<fires, opaque increment, exogenous increment, tag>>
        rules ==
          << <<anchor = "live_score_anchored", 0, 60 * conf, "anchor_live_score">>,
             <<anchor = "spot_price_anchored", 0, 55 * conf, "anchor_spot_price">>,
             <<anchor = "sports_team_news", 45 * conf, 0, "anchor_sports_team_news">>,
             <<anchor = "crypto_news_security", 45 * conf, 0, "anchor_crypto_news">>,
             <<anchor = "scheduled_macro_release", 35 * conf, 0, "anchor_macro_release">>,
             <<anchor = "policy_regulatory_decision", 30 * conf, 0, "anchor_policy_decision">>,
             <<anchor = "other_unknown", 0, 0, "anchor_unknown">>,
             <<unknown /\ (normalizedCategory = "sports" \/ isSportsLinked(title)),
               0, 1500, "sports_related">>,
             <<unknown /\ isCryptoContext, 0, 1000, "crypto_related">>,
             <<anchor = "spot_price_anchored" /\ move >= 80, 0, 1800, "spot_price_shock">>,
             <<normalizedCategory \in {"politics", "policy", "macro", "other"},
               2000, 0, "opaque_info_prone_category">>,
             <<Coalesce(row.volume_24h_usd, 0) >= 10000 /\ abs1m >= 400,
               2000, 0, "meaningful_size_move">>,
             <<Coalesce(row.spread_pp, 10000) <= 800, 1000, 0, "tight_spread">>,
             <<abs1m >= 1500,
               IF anchored THEN 0 ELSE 1000,
               IF anchored THEN 12 * (IF profileConfidence # 0 THEN profileConfidence ELSE 90) ELSE 0,
               "abrupt_micro_move">> >>
        fired == SelectSeq(rules, LAMBDA r : r[1])
        Sum[i \in 0..Len(fired)] ==
            IF i = 0 THEN <<2000, 1000>>
            ELSE <<Sum[i - 1][1] + fired[i][2], Sum[i - 1][2] + fired[i][3]>>
        opaqueScore == clampScore(Sum[Len(fired)][1])
        exogenousScore == clampScore(Sum[Len(fired)][2])
    IN  [opaqueScore |-> opaqueScore, exogenousScore |-> exogenousScore,
         opaqueRaw |-> Sum[Len(fired)][1], exogenousRaw |-> Sum[Len(fired)][2],
         label |-> labelOf(opaqueScore, exogenousScore),
         reasonTags |-> [i \in 1..Len(fired) |-> fired[i][4]]]

ClassificationRowOf(row, external) ==
    LET c == Classify(row, external)
    IN  [ts_minute |-> row.ts_minute, provider |-> row.provider, market_id |-> row.market_id,
         outcome_id |-> row.outcome_id, opaque_score |-> c.opaqueScore,
         exogenous_score |-> c.exogenousScore, label |-> c.label,
         reason_tags |-> c.reasonTags, model_version |-> "rules-v1"]

UpsertClassification(cs, row, external) ==
    Upsert(cs, ClassificationRowOf(row, external), TsKeyOf)

\* ------------------------------------------------------ alerter
\* Absolute pp thresholds, by window.
ALERT_THRESHOLDS ==
    [w \in Range(WindowKeys) |->
       CASE w = "1m" -> 6 [] w = "5m" -> 8 [] w = "10m" -> 10 [] w = "30m" -> 14
         [] w = "1h" -> 18 [] w = "6h" -> 24 [] w = "12h" -> 30 [] w = "24h" -> 38]

\* The windows pickBestTriggeredWindow iterates: the keys of ALERT_THRESHOLDS, in order.
WINDOWS == WindowKeys

MIN_LIQUIDITY_USD == 5000

MAX_SPREAD_PP == 15

\* Minutes of cooldown; the configured default is 30.
TELEGRAM_COOLDOWN_MINUTES == 2

extractDelta(row, window) == row.delta[window]

\* The loop of pickBestTriggeredWindow over the first i windows: NULL or
\* <<[window, delta]>>.  score > best.score is compared as a cross product.
RECURSIVE BestUpTo(_, _)
BestUpTo(row, i) ==
    IF i = 0 THEN NULL
    ELSE LET best == BestUpTo(row, i - 1)
             window == WINDOWS[i]
             delta == extractDelta(row, window)
             threshold == ALERT_THRESHOLDS[window]
         IN  IF IsNull(delta) THEN best
             ELSE IF Abs(delta[1]) < threshold * 100 THEN best
             ELSE IF IsNull(best)
                     \/ Abs(delta[1]) * ALERT_THRESHOLDS[best[1].window]
                          > Abs(best[1].delta) * threshold
             THEN Some([window |-> window, delta |-> delta[1]])
             ELSE best

\* The first window that reaches its threshold wins, whatever its ratio.
pickFirstTriggeredWindow(row) ==
    LET hit == {i \in DOMAIN WINDOWS :
                  /\ ~IsNull(extractDelta(row, WINDOWS[i]))
                  /\ Abs(extractDelta(row, WINDOWS[i])[1]) >= ALERT_THRESHOLDS[WINDOWS[i]] * 100}
        first == CHOOSE i \in hit : \A j \in hit : i <= j
    IN  IF hit = {} THEN NULL
        ELSE Some([window |-> WINDOWS[first], delta |-> extractDelta(row, WINDOWS[first])[1]])

\* return best (window and delta), or null.
pickBestTriggeredWindow(row) == BestUpTo(row, Len(WINDOWS))

SignatureOf(row, bestWindow) ==
    [provider |-> row.provider, market_id |-> row.market_id, outcome_id |-> row.outcome_id,
     window |-> bestWindow.window,
     direction |-> IF bestWindow.delta >= 0 THEN "UP" ELSE "DOWN"]

\* The cooldown has to be exceeded, not merely reached.
canSendStrict(as, signature, t) ==
    LET result == {r \in as : r.signature = signature}
    IN  IF result = {} THEN TRUE
        ELSE t - (CHOOSE r \in result : TRUE).last_sent_at > TELEGRAM_COOLDOWN_MINUTES

\* canSend at clock time t: no row, or elapsedMinutes >= cooldownMinutes.
canSend(as, signature, t) ==
    LET result == {r \in as : r.signature = signature}
    IN  IF result = {} THEN TRUE
        ELSE t - (CHOOSE r \in result : TRUE).last_sent_at >= TELEGRAM_COOLDOWN_MINUTES

\* markSent at clock time t: INSERT ... ON CONFLICT (signature) DO UPDATE.
markSent(as, signature, t) ==
    {r \in as : r.signature # signature} \cup {[signature |-> signature, last_sent_at |-> t]}

AlertRow(c, d, s, m, o) ==
    [ts_minute |-> d.ts_minute, provider |-> d.provider, market_id |-> d.market_id,
     outcome_id |-> d.outcome_id, title |-> m.title, outcome_label |-> o.label,
     probability |-> s.probability, liquidity_usd |-> s.liquidity_usd,
     volume_24h_usd |-> s.volume_24h_usd, label |-> c.label, reason_tags |-> c.reason_tags,
     delta |-> d.delta]

\* The WHERE clause has no liquidity condition.
AlertCandidatesAnyLiquidity(cs, dl, sn, mk, oc, ts) ==
    {AlertRow(c, TheRow(dl, TsKeyOf, TsKeyOf(c)), TheRow(sn, TsKeyOf, TsKeyOf(c)),
              TheRow(mk, MarketKeyOf, MarketKeyOf(c)), TheRow(oc, KeyOf, KeyOf(c))) :
       c \in {x \in cs :
                /\ x.ts_minute = ts
                /\ Lookup(dl, TsKeyOf, TsKeyOf(x)) # {}
                /\ Lookup(sn, TsKeyOf, TsKeyOf(x)) # {}
                /\ Lookup(mk, MarketKeyOf, MarketKeyOf(x)) # {}
                /\ Lookup(oc, KeyOf, KeyOf(x)) # {}
                /\ x.label = "opaque_info_sensitive"
                /\ Coalesce(TheRow(sn, TsKeyOf, TsKeyOf(x)).spread_pp, 10000)
                     <= MAX_SPREAD_PP * 100}}

\* The rows the SELECT of runAlerts finds for tick ts (before ORDER BY / LIMIT):
\* classification_scores JOIN deltas JOIN snapshots_1m JOIN markets JOIN outcomes.
AlertCandidates(cs, dl, sn, mk, oc, ts) ==
    {AlertRow(c, TheRow(dl, TsKeyOf, TsKeyOf(c)), TheRow(sn, TsKeyOf, TsKeyOf(c)),
              TheRow(mk, MarketKeyOf, MarketKeyOf(c)), TheRow(oc, KeyOf, KeyOf(c))) :
       c \in {x \in cs :
                /\ x.ts_minute = ts
                /\ Lookup(dl, TsKeyOf, TsKeyOf(x)) # {}
                /\ Lookup(sn, TsKeyOf, TsKeyOf(x)) # {}
                /\ Lookup(mk, MarketKeyOf, MarketKeyOf(x)) # {}
                /\ Lookup(oc, KeyOf, KeyOf(x)) # {}
                /\ x.label = "opaque_info_sensitive"
                /\ Coalesce(TheRow(sn, TsKeyOf, TsKeyOf(x)).liquidity_usd, 0) >= MIN_LIQUIDITY_USD
                /\ Coalesce(TheRow(sn, TsKeyOf, TsKeyOf(x)).spread_pp, 10000)
                     <= MAX_SPREAD_PP * 100}}

AlertLimit == 500

\* ORDER BY ABS(COALESCE(delta_1m, 0)) DESC LIMIT 500: every order the database
\* may return (rows with equal keys come in any order).
AlertSelections(cs, dl, sn, mk, oc, ts) ==
    LET rows == AlertCandidates(cs, dl, sn, mk, oc, ts)
        n == Cardinality(rows)
        key(r) == Abs(Coalesce(r.delta["1m"], 0))
    IN  {Take(q, AlertLimit) :
           q \in {p \in [1..n -> rows] :
                    /\ \A i, j \in 1..n : i # j => p[i] # p[j]
                    /\ \A i \in 1..n : \A j \in 1..n : i < j => key(p[i]) >= key(p[j])}}

\* ------------------------------------------------------ movers endpoint
\* Defaults of the query parameters minLiquidity and maxSpread.
DefaultMinLiquidity == 5000

DefaultMaxSpread == 15

TabFilters == {"all", "opaque"}

\* One row of the join the three queries share: deltas JOIN markets JOIN
\* outcomes JOIN snapshots_1m LEFT JOIN classification_scores.
MoverRow(d, m, o, s, cs) ==
    LET c == Lookup(cs, TsKeyOf, TsKeyOf(d))
    IN  [ts_minute |-> d.ts_minute, provider |-> d.provider, market_id |-> d.market_id,
         outcome_id |-> d.outcome_id, market_title |-> m.title,
         normalized_category |-> m.normalized_category, outcome_label |-> o.label,
         probability |-> s.probability, volume_24h_usd |-> s.volume_24h_usd,
         liquidity_usd |-> s.liquidity_usd, spread_pp |-> s.spread_pp,
         label |-> IF c = {} THEN "unclear" ELSE (CHOOSE x \in c : TRUE).label,
         reason_tags |-> IF c = {} THEN {} ELSE (CHOOSE x \in c : TRUE).reason_tags,
         delta |-> d.delta]

\* WITH latest AS (SELECT MAX(ts_minute) FROM deltas) ... JOIN latest: the
\* joined rows of the latest Delta tick at the time of the statement.
MoverJoin(dl, mk, oc, sn, cs) ==
    {MoverRow(d, TheRow(mk, MarketKeyOf, MarketKeyOf(d)), TheRow(oc, KeyOf, KeyOf(d)),
              TheRow(sn, TsKeyOf, TsKeyOf(d)), cs) :
       d \in {x \in dl :
                /\ Some(x.ts_minute) = MaxTs(dl)
                /\ Lookup(mk, MarketKeyOf, MarketKeyOf(x)) # {}
                /\ Lookup(oc, KeyOf, KeyOf(x)) # {}
                /\ Lookup(sn, TsKeyOf, TsKeyOf(x)) # {}}}

\* COALESCE(s.liquidity_usd, 0) >= minLiquidity AND COALESCE(s.spread_pp, 100) <= maxSpread
PassesLiquidity(r, includeLowLiquidity) ==
    \/ includeLowLiquidity
    \/ /\ Coalesce(r.liquidity_usd, 0) >= DefaultMinLiquidity
       /\ Coalesce(r.spread_pp, 10000) <= DefaultMaxSpread * 100

\* selectionWhere of countQuery and leadQuery (providers and category at
\* their defaults: polymarket and kalshi, every category).
MoverSelection(rows, tab, includeLowLiquidity) ==
    {r \in rows :
       /\ r.provider \in {"polymarket", "kalshi"}
       /\ PassesLiquidity(r, includeLowLiquidity)
       /\ tab = "opaque" => r.label = "opaque_info_sensitive"}

\* countQuery: COUNT(*) of the selection grouped by market.
CountMarkets(rows) == Cardinality({MarketKeyOf(r) : r \in rows})

\* A numeric query parameter as it arrives: absent (or empty), a text that
\* is no number, or a number, held in tenths.
AbsentParam == [kind |-> "absent", tenths |-> 0]

TextParam == [kind |-> "text", tenths |-> 0]

NumberParam(tenths) == [kind |-> "number", tenths |-> tenths]

\* Math.max(1, Math.floor(numeric)), 1 when the value is no finite number.
parsePage(value) == IF value.kind # "number" THEN 1 ELSE Max2(1, value.tenths \div 10)

\* Math.max(10, Math.min(100, Math.floor(numeric))), 50 when no finite number.
parsePageSize(value) ==
    IF value.kind # "number" THEN 50 ELSE Max2(10, Min2(100, value.tenths \div 10))

SortDirs == {"DESC", "ASC"}

\* totalRows === 0 ? 0 : Math.ceil(totalRows / pageSize)
TotalPages(totalRows, pageSize) ==
    IF totalRows = 0 THEN 0 ELSE (totalRows + pageSize - 1) \div pageSize

\* NULLS LAST is dropped: a row without a delta sorts as any other.
SortsFirstNullsAnywhere(r, q, sortDir) ==
    \/ IsNull(q.delta["1m"]) \/ IsNull(r.delta["1m"])
    \/ IF sortDir = "DESC" THEN r.delta["1m"][1] >= q.delta["1m"][1]
       ELSE r.delta["1m"][1] <= q.delta["1m"][1]

\* ORDER BY sort_delta <sortDir> NULLS LAST (sortWindow at its default, 1m):
\* r may come before q.
SortsFirst(r, q, sortDir) ==
    \/ IsNull(q.delta["1m"])
    \/ /\ ~IsNull(r.delta["1m"])
       /\ IF sortDir = "DESC" THEN r.delta["1m"][1] >= q.delta["1m"][1]
          ELSE r.delta["1m"][1] <= q.delta["1m"][1]

\* ranked ... WHERE rn = 1: per market the row with ROW_NUMBER() = 1, for
\* every choice the database may make among rows that sort equal.
RECURSIVE LeadSets(_, _)
LeadSets(rows, sortDir) ==
    IF rows = {} THEN {{}}
    ELSE LET market == MarketKeyOf(CHOOSE r \in rows : TRUE)
             mine == {r \in rows : MarketKeyOf(r) = market}
             firsts == {l \in mine : \A r \in mine : SortsFirst(l, r, sortDir)}
         IN  {L \cup {l} : l \in firsts, L \in LeadSets(rows \ mine, sortDir)}

\* ORDER BY lead_sort_delta <sortDir> NULLS LAST: every order the database
\* may return the lead rows in.
RECURSIVE Orderings(_, _)
Orderings(leads, sortDir) ==
    IF leads = {} THEN {<<>>}
    ELSE UNION {{<<l>> \o rest : rest \in Orderings(leads \ {l}, sortDir)} :
                  l \in {x \in leads : \A y \in leads : SortsFirst(x, y, sortDir)}}

\* LIMIT limit OFFSET offset
LimitOffset(seq, limit, offset) ==
    IF offset >= Len(seq) THEN <<>> ELSE SubSeq(seq, offset + 1, Min2(Len(seq), offset + limit))

\* leadQuery: the pages of lead rows the statement may return.
LeadSelections(rows, sortDir, pageSize, offset) ==
    {LimitOffset(ordered, pageSize, offset) :
       ordered \in UNION {Orderings(L, sortDir) : L \in LeadSets(rows, sortDir)}}

\* outcomesQuery: the rows of the lead markets that pass outcomesWhere.
OutcomeRows(rows, leads, includeLowLiquidity) ==
    {r \in rows :
       /\ \E l \in Range(leads) : MarketKeyOf(l) = MarketKeyOf(r)
       /\ PassesLiquidity(r, includeLowLiquidity)}

\* One MoverOutcomeRow of the response.
MoverOutcome(r) ==
    [outcomeId |-> r.outcome_id, outcomeLabel |-> r.outcome_label,
     probability |-> r.probability, label |-> r.label, reasonTags |-> r.reason_tags,
     deltasPp |-> r.delta, timestamp |-> r.ts_minute]

\* The data of the response: a MoverMarketRow per lead row, in the order of
\* the lead rows, with its outcomes.
MoversData(leads, rows) ==
    [i \in 1..Len(leads) |->
       LET l == leads[i]
       IN  [provider |-> l.provider, marketId |-> l.market_id, marketTitle |-> l.market_title,
            label |-> l.label, reasonTags |-> l.reason_tags, leadOutcomeId |-> l.outcome_id,
            timestamp |-> l.ts_minute,
            outcomes |-> {MoverOutcome(r) :
                            r \in {x \in rows : MarketKeyOf(x) = MarketKeyOf(l)}}]]

\* ------------------------------------------------------ chat dispatcher
\* pickMode with TELEGRAM_ENABLED: "bot", "user", or "off" (disabled, or no
\* transport fully configured: sendTelegramMessage returns without sending).
TelegramModes == {"bot", "user", "off"}

\* parameters.retry_after of a 429, in seconds, or none.
RetryAfters == {NULL, Some(5), Some(60)}

\* ------------------------------------------------------ adapters
\* enabled: OpinionAdapter is off unless ENABLE_OPINION and OPINION_API_KEY are set.
AdapterEnabled(name) == name \in {"polymarket", "kalshi"}

\* What the enabled adapters hand back for one tick: per outcome, a quote or
\* nothing (the adapter threw, or its listing no longer holds the market).
FetchResults == [Keys -> {NULL} \cup {Some(pr) : pr \in Probs}]

\* allSnapshots: the adapters' snapshots in adapter order.
RECURSIVE AllSnapshots(_, _, _)
AllSnapshots(res, ts, i) ==
    IF i > Len(Providers) THEN <<>>
    ELSE LET name == Providers[i]
             mine == {k \in Keys : k.provider = name /\ ~IsNull(res[k])}
             part == IF AdapterEnabled(name) /\ mine # {}
                     THEN LET k == CHOOSE x \in mine : TRUE
                          IN  <<OutcomeSnapshot(k, res[k][1], ts)>>
                     ELSE <<>>
         IN  part \o AllSnapshots(res, ts, i + 1)

\* ------------------------------------------------------ state
VARIABLES
    now,                    \* wall clock, minutes
    mainPc,                 \* where main() stands
    timerDue,               \* the interval timer has a callback pending
    running,                \* the re-entrance flag of cycle()
    ncyc,                   \* cycle() invocations so far
    cyc,                    \* per invocation: position and locals
    poolEnded,              \* pool.end() has been called
    exitCode,               \* NULL while the process lives
    telegram,               \* dispatcher mode (configuration)
    env,                    \* what the outside world does in this run
    markets, outcomes, snapshots_1m, deltas, classification_scores,
    market_profiles, alert_state,
    previousPrices,         \* external-signals map
    sent,                   \* history: the messages the chat server accepted
    request,                \* the GET on the movers endpoint: position and locals
    mig,                    \* runMigrations: position, locals, session and schema
    cachedModel,            \* the classifier getModel() holds, NULL when none
    lastModelCheckMs,       \* when getModel() last read the file (minutes)
    opinion,                \* the Opinion adapter: its pacer and its requests
    clob                    \* the Polymarket adapter: mapLimit over the order books

vars == <<now, mainPc, timerDue, running, ncyc, cyc, poolEnded, exitCode, telegram, env,
          markets, outcomes, snapshots_1m, deltas, classification_scores,
          market_profiles, alert_state, previousPrices, sent, request, mig,
          cachedModel, lastModelCheckMs, opinion, clob>>

modelCache == <<cachedModel, lastModelCheckMs>>

adapterState == <<opinion, clob>>

store == <<markets, outcomes, snapshots_1m, deltas, classification_scores,
           market_profiles, alert_state>>

sched == <<now, mainPc, timerDue, ncyc, poolEnded, exitCode, telegram, env>>

NoSignals == [btc1mPct |-> NULL, eth1mPct |-> NULL]

\* An invocation of cycle(): its position, the locals of the stage it is in,
\* and its history (log: the stages that returned; unsent: the signature whose
\* send threw; quotes, fetched, signals, result: what a recorded run was given
\* and the tables it left; invoked, threw: the adapters a traced run called
\* and those whose fetchSnapshots threw).
IdleCycle ==
    [pc |-> "idle", tsMinute |-> 0, allSnapshots |-> <<>>, rows |-> <<>>,
     external |-> NoSignals, checkedAt |-> 0, sentCount |-> 0, log |-> <<>>,
     unsent |-> NULL, quotes |-> NULL, fetched |-> NULL, signals |-> NoSignals,
     result |-> NULL, invoked |-> {}, threw |-> {}, retries |-> 0, retrySeconds |-> 0,
     wakeAt |-> 0]

\* The stages of one cycle, in the order cycle() awaits them.
\* Classification is started before the deltas are computed.
StageOrderClassificationFirst ==
    <<"snapshot", "profiling", "classification", "delta", "alerts">>

\* The stages awaited in the try block of cycle(), in order.
StageOrder == <<"snapshot", "profiling", "delta", "classification", "alerts">>

FirstPc(stage) ==
    CASE stage = "snapshot" -> "fetch"
      [] stage = "profiling" -> "prof_model"
      [] stage = "delta" -> "delta"
      [] stage = "classification" -> "class_select"
      [] stage = "alerts" -> "alert_select"

ActivePcs ==
    {"fetch", "upsert_market", "upsert_outcome", "upsert_snapshot", "prof_model",
     "prof_select", "prof_upsert", "delta", "class_select", "class_signals", "class_upsert",
     "alert_select", "alert_check", "alert_send", "alert_mark"}

\* The positions whose next step is a pool.query.
DbPcs ==
    {"upsert_market", "upsert_outcome", "upsert_snapshot", "prof_select", "prof_upsert",
     "delta", "class_select", "class_upsert", "alert_select", "alert_check", "alert_mark"}

Alive == IsNull(exitCode)

\* The guard is missing: no invocation is skipped.
CycleGuardAbsent(flag) == FALSE

\* `if (running) return`: whether this invocation of cycle() is skipped.
CycleGuard(flag) == flag

\* The stage has returned: the next stage starts, or the try block ends.
AfterStage(c, stage) ==
    LET k == IndexOf(StageOrder, stage)
    IN  [c EXCEPT !.pc = IF k = Len(StageOrder) THEN "done" ELSE FirstPc(StageOrder[k + 1]),
                  !.log = Append(@, stage), !.rows = <<>>, !.allSnapshots = <<>>,
                  !.external = NoSignals]

\* catch: the error is logged.
Failed(c) ==
    [c EXCEPT !.pc = "failed", !.rows = <<>>, !.allSnapshots = <<>>, !.external = NoSignals,
              !.checkedAt = 0]

\* The flag is cleared at the end of the try block instead of in finally.
FinallyOnSuccessOnly(c, flag) == IF c.pc = "done" THEN FALSE ELSE flag

\* finally { running = false }, reached when the try block ends or throws.
Finally(c, flag) == IF c.pc \in {"done", "failed"} THEN FALSE ELSE flag

Proceed(i, c) ==
    /\ cyc' = [cyc EXCEPT ![i] =
                 IF env.record /\ c.pc = "done"
                 THEN [c EXCEPT !.result = Some(<<snapshots_1m, deltas, classification_scores,
                                                  market_profiles>>)]
                 ELSE c]
    /\ running' = Finally(c, running)

CycleIds == 1..MaxInvocations

\* A GET on the movers endpoint: its position, its query parameters, what it
\* has read so far (countTick: the latest tick when the count was taken).
IdleRequest ==
    [pc |-> "idle", query |-> [page |-> AbsentParam, pageSize |-> AbsentParam],
     tab |-> "all", includeLowLiquidity |-> FALSE, sortDir |-> "DESC",
     page |-> 1, pageSize |-> 50, totalRows |-> 0, totalPages |-> 0,
     countTick |-> NULL, leadRows |-> <<>>, data |-> <<>>]

\* ------------------------------------------------------ the Opinion adapter
\* The fetchJson calls of one fetchSnapshots: 0 is the listing call of
\* fetchMarkets, the others the order-depth calls launched by Promise.all.
OpinionCalls == 0..PAGE_SIZE

IdleCall == [pc |-> "idle", attempt |-> 0, due |-> 0]

\* fetchSnapshots has not been called.  lastStart: the time at which fetch()
\* was last called; gap: the time between the last two calls of fetch();
\* late: a timer has fired after it was due; busy: how often the event loop
\* will be busy when a timer is due; attempts, pauses: the calls of
\* fetch() and of sleep(500 * attempt) in the current fetchJson.
IdleOpinion ==
    [pc |-> "idle", now |-> 0, nextAllowedStartMs |-> 0, page |-> 1, listed |-> 0,
     call |-> [c \in OpinionCalls |-> IdleCall], lastStart |-> <<>>, gap |-> <<>>,
     late |-> FALSE, busy |-> 0,
     attempts |-> [c \in OpinionCalls |-> 0], pauses |-> [c \in OpinionCalls |-> 0]]

OpinionStep(o) ==
    /\ opinion' = o
    /\ UNCHANGED <<sched, running, cyc, store, previousPrices, sent, request, mig, modelCache,
                   clob>>

\* fetchJson is entered: attempt = 0, then the first pass of its loop.
Called == [pc |-> "call", attempt |-> 1, due |-> 0]

\* fetchSnapshots: the pacer is reset, fetchMarkets asks for page 1.
OpinionFetch ==
    /\ opinion.pc = "idle"
    /\ OpinionStep([opinion EXCEPT !.pc = "listing", !.nextAllowedStartMs = 0,
                                   !.call[0] = Called])

\* The slot is taken relative to the slot before, whatever the time is.
SlotAfterIgnoringNow(next, t) == next + REQUEST_SPACING_MS

\* nextAllowedStartMs = Math.max(nextAllowedStartMs, now) + REQUEST_SPACING_MS
SlotAfter(next, t) == Max2(next, t) + REQUEST_SPACING_MS

\* fetch(url, init) is called at time t.
FetchCalled(o, c, t) ==
    [o EXCEPT !.call[c].pc = "inflight", !.lastStart = <<t>>,
              !.gap = IF o.lastStart = <<>> THEN <<>> ELSE <<t - o.lastStart[1]>>]

\* rateLimitedFetch up to its await: the wait is computed, the slot is
\* taken; with no wait fetch() is called at once.
RateLimitedFetch(c) ==
    /\ opinion.call[c].pc = "call"
    /\ LET t == opinion.now
           waitMs == Max2(0, opinion.nextAllowedStartMs - t)
           o == [opinion EXCEPT !.nextAllowedStartMs = SlotAfter(@, t),
                                !.attempts[c] = @ + 1]
       IN  OpinionStep(IF waitMs > 0
                       THEN [o EXCEPT !.call[c].pc = "sleep", !.call[c].due = t + waitMs]
                       ELSE FetchCalled(o, c, t))

\* The timer of sleep(waitMs) fires, at or after its time: fetch() is called.
PacerWakes(c) ==
    /\ opinion.call[c].pc = "sleep" /\ opinion.now >= opinion.call[c].due
    /\ OpinionStep(FetchCalled(opinion, c, opinion.now))

\* The call has ended: fetchMarkets goes on with what the page held, a
\* depth call settles; when all depth calls have settled fetchSnapshots returns.
Settle(o, c, outcome, length) ==
    IF c = 0
    THEN IF outcome = "threw" THEN [o EXCEPT !.pc = "threw", !.call[0] = IdleCall]
         ELSE LET listed == o.listed + length
                  more == length = PAGE_SIZE /\ o.page + 1 < PageCap
              IN  IF more
                  THEN [o EXCEPT !.listed = listed, !.page = @ + 1, !.call[0] = Called,
                                 !.attempts[0] = 0, !.pauses[0] = 0]
                  ELSE IF listed = 0
                  THEN [o EXCEPT !.listed = listed, !.pc = "returned", !.call[0] = IdleCall]
                  ELSE [o EXCEPT !.listed = listed, !.pc = "depth",
                                 !.call = [d \in OpinionCalls |->
                                             IF d >= 1 /\ d <= Min2(listed, PAGE_SIZE)
                                             THEN Called ELSE IdleCall]]
    ELSE LET p == [o EXCEPT !.call[c].pc = outcome]
         IN  IF \A d \in OpinionCalls : p.call[d].pc \in {"idle", "ok", "threw"}
             THEN [p EXCEPT !.pc = "returned"] ELSE p

\* The response is read.  429: sleep(500 * attempt); another status:
\* fetchJson throws; else it returns the body (a page of `length` markets).
Respond(c) ==
    /\ opinion.call[c].pc = "inflight"
    /\ \E status \in {200, 429, 500} : \E length \in 0..PAGE_SIZE :
         /\ (c # 0 \/ status # 200) => length = 0
         /\ OpinionStep(IF status = 429
                        THEN [opinion EXCEPT
                                !.call[c].pc = "backoff",
                                !.call[c].due = opinion.now + BackoffMs * opinion.call[c].attempt,
                                !.pauses[c] = @ + 1]
                        ELSE Settle(opinion, c, IF status = 200 THEN "ok" ELSE "threw", length))

\* The retries are not counted: the loop goes on after every 429.
AfterBackoffUnbounded(o, c) ==
    [o EXCEPT !.call[c].pc = "call", !.call[c].attempt = @ + 1]

\* `continue` after the back-off: another pass while attempt < 4, else
\* fetchJson throws "rate limited (429) after retries".
AfterBackoff(o, c) ==
    IF o.call[c].attempt < MaxAttempts
    THEN [o EXCEPT !.call[c].pc = "call", !.call[c].attempt = @ + 1]
    ELSE Settle(o, c, "threw", 0)

BackoffEnds(c) ==
    /\ opinion.call[c].pc = "backoff" /\ opinion.now >= opinion.call[c].due
    /\ OpinionStep(AfterBackoff(opinion, c))

\* The times at which a pending timer is due.
Dues(o) == {o.call[c].due : c \in {d \in OpinionCalls : o.call[d].pc \in {"sleep", "backoff"}}}

\* Time passes once the code that can run has run: to the next timer due,
\* or past it (the event loop was busy and the timer fires late).
OpinionClock ==
    /\ opinion.pc \in {"listing", "depth"}
    /\ \A c \in OpinionCalls : opinion.call[c].pc # "call"
    /\ \A x \in Dues(opinion) : x > opinion.now
    /\ \E d \in {x \in Dues(opinion) : x > opinion.now} :
       \E t \in {d} \cup (IF opinion.busy > 0 THEN {d + LateMs} ELSE {}) :
         /\ \A x \in Dues(opinion) : x > opinion.now => x >= d
         /\ t <= OpinionMaxMs
         /\ OpinionStep([opinion EXCEPT !.now = t, !.late = @ \/ t > d,
                                        !.busy = IF t > d THEN @ - 1 ELSE @])

\* ------------------------------------------------------ the Polymarket adapter
TokenIds == <<"t1", "t2", "t3", "t4">>

ClobWorkers == 1..MaxTokens

\* mapLimit has not been called.  requested: how often fetchClobBook was
\* called for each token id.
IdleClob ==
    [pc |-> "idle", items |-> <<>>, next |-> 0,
     worker |-> [w \in ClobWorkers |-> [pc |-> "none", index |-> 0]],
     results |-> <<>>, requested |-> [t \in Range(TokenIds) |-> 0]]

ClobStep(b) ==
    /\ clob' = b
    /\ UNCHANGED <<sched, running, cyc, store, previousPrices, sent, request, mig, modelCache,
                   opinion>>

\* One worker is made for every item.
WorkerCountUnlimited(limit, n) == n

\* Array.from({ length: Math.min(limit, items.length) }, ...)
WorkerCount(limit, n) == Min2(limit, n)

\* index = next; next += 1; if (index >= items.length) return; else
\* fn(items[index]) is called and awaited.  Indices count from 0.
TakeNext(b, w) ==
    LET index == b.next
        token == b.items[index + 1]
    IN  IF index >= Len(b.items)
        THEN [b EXCEPT !.next = @ + 1, !.worker[w] = [pc |-> "returned", index |-> index]]
        ELSE [b EXCEPT !.next = @ + 1, !.worker[w] = [pc |-> "await", index |-> index],
                       !.requested[token] = @ + 1]

\* The workers 1..k run, one after the other, up to their first await.
RECURSIVE StartWorkers(_, _)
StartWorkers(b, k) == IF k = 0 THEN b ELSE TakeNext(StartWorkers(b, k - 1), k)

\* mapLimit(uniqueTokenIds, CLOB_CONCURRENCY, fn): results = new Array(n),
\* next = 0, the workers are created; with no item it returns at once.
MapLimit ==
    /\ clob.pc = "idle"
    /\ \E n \in 0..MaxTokens :
         LET b == [IdleClob EXCEPT !.pc = "running", !.items = SubSeq(TokenIds, 1, n),
                                   !.results = [x \in 1..n |-> NULL]]
             started == StartWorkers(b, WorkerCount(CLOB_CONCURRENCY, n))
         IN  ClobStep(IF n = 0 THEN [started EXCEPT !.pc = "returned"] ELSE started)

\* The book request of worker w ends (fetchClobBook gives a book, or null
\* on any failure): results[index] is set and the loop goes round.
BookArrives(w) ==
    /\ clob.pc = "running" /\ clob.worker[w].pc = "await"
    /\ \E book \in {NULL, Some("book")} :
         LET index == clob.worker[w].index
             stored == [clob EXCEPT !.results[index + 1] = Some(<<clob.items[index + 1], book>>)]
             b == TakeNext(stored, w)
         IN  ClobStep(IF \A v \in ClobWorkers : b.worker[v].pc \in {"none", "returned"}
                      THEN [b EXCEPT !.pc = "returned"] ELSE b)

\* ------------------------------------------------------ runMigrations
\* The names localeCompare orders, in that order.
MigrationNameOrder == <<"001_init.sql", "002_more.sql">>

\* entry.isFile() && entry.name.endsWith(".sql")
IsSqlFile(name) == name \in Range(MigrationNameOrder)

NameBefore(a, b) == IndexOf(MigrationNameOrder, a) < IndexOf(MigrationNameOrder, b)

\* The names are taken in the order opposite to localeCompare.
RECURSIVE SortNamesDescending(_)
SortNamesDescending(S) ==
    IF S = {} THEN <<>>
    ELSE LET first == CHOOSE x \in S : \A y \in S \ {x} : NameBefore(y, x)
         IN  <<first>> \o SortNamesDescending(S \ {first})

\* .sort((a, b) => a.localeCompare(b))
RECURSIVE SortNames(_)
SortNames(S) ==
    IF S = {} THEN <<>>
    ELSE LET first == CHOOSE x \in S : \A y \in S \ {x} : NameBefore(x, y)
         IN  <<first>> \o SortNames(S \ {first})

\* What readdir may find in ../sql.
SqlDirs ==
    {{"001_init.sql"}, {"001_init.sql", "notes.txt"}, {"001_init.sql", "002_more.sql"}}

\* runMigrations has not been called; the database is empty.  txn and
\* pending are the session of the pool's one idle client: whether BEGIN has
\* opened a transaction on it and what the transaction holds uncommitted.
\* effects and applied are the file SQL the database has committed (as a
\* set and in commit order), recorded the names in schema_migrations.
IdleMigration ==
    [pc |-> "idle", run |-> 0, dir |-> {}, migrations |-> <<>>, k |-> 0,
     txn |-> "none", pending |-> {}, losses |-> 0,
     tableExists |-> FALSE, recorded |-> {}, effects |-> {}, applied |-> <<>>]

MigName == mig.migrations[mig.k]

\* The loop takes the next name, or runMigrations returns.
NextFile(m) ==
    IF m.k = Len(m.migrations) THEN [m EXCEPT !.pc = "done"]
    ELSE [m EXCEPT !.pc = "select", !.k = @ + 1]

MigStep(m) ==
    /\ mig' = m
    /\ UNCHANGED <<sched, running, cyc, store, previousPrices, sent, request, modelCache,
                   adapterState>>

\* CREATE TABLE IF NOT EXISTS schema_migrations
MigCreate ==
    /\ mig.pc = "create"
    /\ MigStep([mig EXCEPT !.pc = "readdir", !.tableExists = TRUE])

\* readdir, filter, map, sort; then the first iteration of the loop.
MigReaddir ==
    /\ mig.pc = "readdir"
    /\ MigStep(NextFile([mig EXCEPT !.k = 0,
                                     !.migrations = SortNames({n \in mig.dir : IsSqlFile(n)})]))

\* SELECT 1 FROM schema_migrations WHERE name = $1; `continue` when a row exists.
MigSelect ==
    /\ mig.pc = "select"
    /\ MigStep(IF MigName \in mig.recorded THEN NextFile(mig) ELSE [mig EXCEPT !.pc = "readfile"])

MigReadFile ==
    /\ mig.pc = "readfile"
    /\ MigStep([mig EXCEPT !.pc = "begin"])

\* pool.query("BEGIN"), on whichever client the pool hands out.
MigBegin ==
    /\ mig.pc = "begin"
    /\ MigStep([mig EXCEPT !.pc = "sql", !.txn = "open", !.pending = {}])

\* pool.query(sql): inside the client's open transaction, or on a client
\* without one, where the statements commit as they end.
MigSql ==
    /\ mig.pc = "sql"
    /\ MigStep(IF mig.txn = "open"
               THEN [mig EXCEPT !.pc = "insert", !.pending = @ \cup {"sql"}]
               ELSE [mig EXCEPT !.pc = "insert", !.effects = @ \cup {MigName},
                                !.applied = Append(@, MigName)])

\* pool.query(INSERT INTO schema_migrations ...)
MigInsert ==
    /\ mig.pc = "insert"
    /\ MigStep(IF mig.txn = "open"
               THEN [mig EXCEPT !.pc = "commit", !.pending = @ \cup {"row"}]
               ELSE [mig EXCEPT !.pc = "commit", !.recorded = @ \cup {MigName}])

\* What COMMIT makes visible of the open transaction of the file `name`.
Committed(m, name) ==
    [m EXCEPT !.txn = "none", !.pending = {},
              !.effects = IF "sql" \in m.pending THEN @ \cup {name} ELSE @,
              !.applied = IF "sql" \in m.pending THEN Append(@, name) ELSE @,
              !.recorded = IF "row" \in m.pending THEN @ \cup {name} ELSE @]

\* pool.query("COMMIT") (a warning and no effect on a client without a
\* transaction); then the next iteration.
MigCommit ==
    /\ mig.pc = "commit"
    /\ MigStep(NextFile(IF mig.txn = "open" THEN Committed(mig, MigName) ELSE mig))

\* A query or a file-system call before the try block rejects: runMigrations throws.
MigThrow ==
    /\ mig.pc \in {"create", "readdir", "select", "readfile", "begin"}
    /\ MigStep([mig EXCEPT !.pc = "failed"])

\* A query of the try block rejects: catch.
MigCatch ==
    /\ mig.pc \in {"sql", "insert", "commit"}
    /\ MigStep([mig EXCEPT !.pc = "rollback"])

\* pool.query("ROLLBACK").catch(() => undefined); throw error.  Whether or
\* not the ROLLBACK arrives, the process exits and the server drops what the
\* session had not committed.
MigRollback ==
    /\ mig.pc = "rollback"
    /\ MigStep([mig EXCEPT !.pc = "failed", !.txn = "none", !.pending = {}])

\* The pool's idle client loses its connection between two queries: the
\* server rolls its transaction back and the pool opens a new client for the
\* next query.
ConnLost ==
    /\ mig.pc \in {"sql", "insert", "commit"}
    /\ mig.txn = "open" /\ mig.losses < MaxConnLosses
    /\ MigStep([mig EXCEPT !.txn = "none", !.pending = {}, !.losses = @ + 1])

\* The worker is started (again, after it returned from or failed in
\* runMigrations); a deployment may have added files.
Restart ==
    /\ mig.pc \in {"done", "failed"} /\ mig.run < MaxRuns
    /\ \E dir \in {d \in SqlDirs : mig.dir \subseteq d} :
         MigStep([mig EXCEPT !.pc = "create", !.run = @ + 1, !.dir = dir, !.migrations = <<>>,
                             !.k = 0, !.txn = "none", !.pending = {}])

\* The state after construction, for a world env and dispatcher modes.
InitWith(world, modes) ==
    /\ env = world
    /\ telegram \in modes
    /\ now = 0
    /\ mainPc = "migrate"
    /\ timerDue = FALSE
    /\ running = FALSE
    /\ ncyc = 0
    /\ cyc = [i \in CycleIds |-> IdleCycle]
    /\ poolEnded = FALSE
    /\ exitCode = NULL
    /\ markets = {} /\ outcomes = {} /\ snapshots_1m = {} /\ deltas = {}
    /\ classification_scores = {} /\ market_profiles = {} /\ alert_state = {}
    /\ previousPrices = [y \in Symbols |-> NULL]
    /\ sent = {}
    /\ request = IdleRequest
    /\ mig = IdleMigration
    /\ cachedModel = NULL
    /\ lastModelCheckMs = NeverChecked
    /\ opinion = IdleOpinion
    /\ clob = IdleClob

\* The surroundings of a run: the probabilities each listing quotes, the spot
\* prices and symbols the price source serves, how long it is observed, and
\* whether the interval is below a minute and runs are recorded.
World(probs, spots, symbols, maxTime, maxCycles, subMinute, record) ==
    [probs |-> probs, spots |-> spots, symbols |-> symbols, maxTime |-> maxTime,
     maxCycles |-> maxCycles, subMinute |-> subMinute, record |-> record, trace |-> FALSE,
     sorts |-> {"DESC"}, pages |-> {AbsentParam}, pageSizes |-> {AbsentParam},
     modelFiles |-> {NULL}]

\* The same surroundings, with the adapter calls of every run traced.
Traced(world) == [world EXCEPT !.trace = TRUE]

\* Only Polymarket quotes (the Kalshi listing is empty or down).
PolyOnly == [k \in Keys |-> IF k = PolyKey THEN Probs ELSE {}]

Init ==
    InitWith(World(PolyOnly, {}, {}, SchedMaxTime, SchedMaxCycles, FALSE, FALSE), {"bot"})

\* ------------------------------------------------------ main and the timer
\* await runMigrations() resolved.
MigrateOk ==
    /\ Alive /\ mainPc = "migrate" /\ ~poolEnded
    /\ mainPc' = "call_cycle"
    /\ UNCHANGED <<now, timerDue, running, ncyc, cyc, poolEnded, exitCode, telegram, env,
                   store, previousPrices, sent, request, mig, modelCache, adapterState>>

\* runMigrations() rejected: main().catch exits 1 and leaves the pool open.
MigrateFailExitsOnly ==
    /\ Alive /\ mainPc = "migrate"
    /\ mainPc' = "fatal"
    /\ exitCode' = Some(1)
    /\ UNCHANGED <<now, timerDue, running, ncyc, cyc, poolEnded, telegram, env, store,
                   previousPrices, sent, request, mig, modelCache, adapterState>>

\* runMigrations() rejected: main().catch ends the pool and exits 1.
MigrateFail ==
    /\ Alive /\ mainPc = "migrate"
    /\ mainPc' = "fatal"
    /\ poolEnded' = TRUE
    /\ exitCode' = Some(1)
    /\ UNCHANGED <<now, timerDue, running, ncyc, cyc, telegram, env, store, previousPrices, sent, request, mig, modelCache, adapterState>>

\* cycle() is entered: skipped when the flag is set, else the flag is taken
\* and runSnapshotIngestion fixes tsMinute = toMinute().
CycleEnter(i) ==
    IF CycleGuard(running)
    THEN /\ cyc' = [cyc EXCEPT ![i] = [IdleCycle EXCEPT !.pc = "skipped"]]
         /\ UNCHANGED running
    ELSE /\ cyc' = [cyc EXCEPT ![i] = [IdleCycle EXCEPT !.pc = "fetch", !.tsMinute = now]]
         /\ running' = TRUE

\* main: await cycle()
MainCycle ==
    /\ Alive /\ mainPc = "call_cycle"
    /\ mainPc' = "await_cycle"
    /\ ncyc' = ncyc + 1
    /\ CycleEnter(ncyc + 1)
    /\ UNCHANGED <<now, timerDue, poolEnded, exitCode, telegram, env, store, previousPrices, sent, request, mig, modelCache, adapterState>>

\* main: the first cycle has settled; setInterval(cycle, WORKER_LOOP_INTERVAL_MS).
MainSetInterval ==
    /\ Alive /\ mainPc = "await_cycle"
    /\ cyc[1].pc \in {"done", "failed", "skipped"}
    /\ mainPc' = "looping"
    /\ UNCHANGED <<now, timerDue, running, ncyc, cyc, poolEnded, exitCode, telegram, env,
                   store, previousPrices, sent, request, mig, modelCache, adapterState>>

\* One interval (a minute) passes; a set timer becomes due.
Clock ==
    /\ Alive /\ now < env.maxTime
    /\ now' = now + 1
    /\ timerDue' = (timerDue \/ mainPc = "looping")
    /\ UNCHANGED <<mainPc, running, ncyc, cyc, poolEnded, exitCode, telegram, env,
                   store, previousPrices, sent, request, mig, modelCache, adapterState>>

\* WORKER_LOOP_INTERVAL_MS is set below a minute: the timer becomes due
\* within the same minute.
IntervalElapses ==
    /\ Alive /\ env.subMinute /\ mainPc = "looping" /\ ~timerDue /\ ncyc < env.maxCycles
    /\ timerDue' = TRUE
    /\ UNCHANGED <<now, mainPc, running, ncyc, cyc, poolEnded, exitCode, telegram, env,
                   store, previousPrices, sent, request, mig, modelCache, adapterState>>

\* The interval timer calls cycle().
TimerFires ==
    /\ Alive /\ timerDue /\ ncyc < env.maxCycles
    /\ timerDue' = FALSE
    /\ ncyc' = ncyc + 1
    /\ CycleEnter(ncyc + 1)
    /\ UNCHANGED <<now, mainPc, poolEnded, exitCode, telegram, env, store, previousPrices, sent, request, mig, modelCache, adapterState>>

\* SIGINT / SIGTERM: the handler calls pool.end() at once.
Signal ==
    /\ Alive /\ ~poolEnded
    /\ poolEnded' = TRUE
    /\ UNCHANGED <<now, mainPc, timerDue, running, ncyc, cyc, exitCode, telegram, env,
                   store, previousPrices, sent, request, mig, modelCache, adapterState>>

\* pool.end() has settled: process.exit(0).
Exit ==
    /\ Alive /\ poolEnded
    /\ exitCode' = Some(0)
    /\ UNCHANGED <<now, mainPc, timerDue, running, ncyc, cyc, poolEnded, telegram, env,
                   store, previousPrices, sent, request, mig, modelCache, adapterState>>

\* A pool.query rejects (database error, or the pool has been ended): the
\* stage throws, cycle() logs the failure and releases the flag.
DbFail(i) ==
    /\ Alive /\ cyc[i].pc \in DbPcs
    /\ cyc[i].pc = "alert_check" => ~IsNull(pickBestTriggeredWindow(Head(cyc[i].rows)))
    /\ Proceed(i, Failed(cyc[i]))
    /\ UNCHANGED <<sched, store, previousPrices, sent, request, mig, modelCache, adapterState>>

\* ------------------------------------------------------ runSnapshotIngestion
\* The adapters the loop calls: `if (!adapter.enabled) continue`.
InvokedAdapters == {name \in Range(Providers) : AdapterEnabled(name)}

\* The catch clause rethrows: an adapter that threw fails the stage.
AfterAdaptersUncaught(c, threw, all) ==
    IF threw # {} THEN Failed(c)
    ELSE IF all = <<>> THEN AfterStage(c, "snapshot")
    ELSE [c EXCEPT !.pc = "upsert_market", !.allSnapshots = all]

\* try { push(...await fetchSnapshots) } catch { console.error }: the loop
\* over the adapters ends with what the others returned, then the upserts.
AfterAdapters(c, threw, all) ==
    IF all = <<>> THEN AfterStage(c, "snapshot")
    ELSE [c EXCEPT !.pc = "upsert_market", !.allSnapshots = all]

\* Every adapter has answered (or thrown, which is caught): allSnapshots is built.
\* A traced run tells an adapter that threw from one that returned nothing.
Fetch(i) ==
    /\ Alive /\ cyc[i].pc = "fetch"
    /\ \E res \in {r \in FetchResults : \A k \in Keys : IsNull(r[k]) \/ r[k][1] \in env.probs[k]} :
       \E threw \in SUBSET InvokedAdapters :
         LET all == AllSnapshots(res, cyc[i].tsMinute, 1)
             c == IF env.record \/ env.trace THEN [cyc[i] EXCEPT !.quotes = Some(res)]
                  ELSE cyc[i]
             d == IF env.trace THEN [c EXCEPT !.invoked = InvokedAdapters, !.threw = threw]
                  ELSE c
         IN  /\ env.trace \/ threw = {}
             /\ \A k \in Keys : k.provider \in threw => IsNull(res[k])
             /\ Proceed(i, AfterAdapters(d, threw, all))
    /\ UNCHANGED <<sched, store, previousPrices, sent, request, mig, modelCache, adapterState>>

\* upsertSnapshot, first statement: INSERT INTO markets.
UpsertMarketStep(i) ==
    /\ Alive /\ ~poolEnded /\ cyc[i].pc = "upsert_market"
    /\ markets' = UpsertMarket(markets, Head(cyc[i].allSnapshots))
    /\ Proceed(i, [cyc[i] EXCEPT !.pc = "upsert_outcome"])
    /\ UNCHANGED <<sched, outcomes, snapshots_1m, deltas, classification_scores,
                   market_profiles, alert_state, previousPrices, sent, request, mig, modelCache, adapterState>>

\* upsertSnapshot, second statement: INSERT INTO outcomes.
UpsertOutcomeStep(i) ==
    /\ Alive /\ ~poolEnded /\ cyc[i].pc = "upsert_outcome"
    /\ outcomes' = UpsertOutcome(outcomes, Head(cyc[i].allSnapshots))
    /\ Proceed(i, [cyc[i] EXCEPT !.pc = "upsert_snapshot"])
    /\ UNCHANGED <<sched, markets, snapshots_1m, deltas, classification_scores,
                   market_profiles, alert_state, previousPrices, sent, request, mig, modelCache, adapterState>>

\* upsertSnapshot, third statement: INSERT INTO snapshots_1m; then the next
\* snapshot of the loop, or the stage returns.
UpsertSnapshotStep(i) ==
    /\ Alive /\ ~poolEnded /\ cyc[i].pc = "upsert_snapshot"
    /\ snapshots_1m' = UpsertSnapshotRow(snapshots_1m, Head(cyc[i].allSnapshots))
    /\ Proceed(i, IF Tail(cyc[i].allSnapshots) = <<>> THEN AfterStage(cyc[i], "snapshot")
                  ELSE [cyc[i] EXCEPT !.pc = "upsert_market", !.allSnapshots = Tail(@)])
    /\ UNCHANGED <<sched, markets, outcomes, deltas, classification_scores,
                   market_profiles, alert_state, previousPrices, sent, request, mig, modelCache, adapterState>>

\* ------------------------------------------------------ runMarketProfiling
\* getModel() reads the file again 10 minutes after the last read while a
\* model is cached, one minute after it while none is.
ReadsModelFile(model, last, t) ==
    IF IsNull(model) THEN t - last >= ModelRetryMinutes ELSE t - last >= ModelReloadMinutes

\* A failed load replaces the cached model by what was loaded (nothing).
AfterLoadForgetful(model, loaded) == loaded

\* if (loaded) cachedModel = loaded; otherwise the previous model is kept.
AfterLoad(model, loaded) == IF IsNull(loaded) THEN model ELSE loaded

\* const model = await getModel(): loadAnchorNbModel answers null for a
\* missing or invalid file and never throws. Only this stage assigns
\* cachedModel and one invocation runs at a time, so the stage reads its
\* local `model` from cachedModel until it returns.
ProfModel(i) ==
    /\ Alive /\ cyc[i].pc = "prof_model"
    /\ IF ReadsModelFile(cachedModel, lastModelCheckMs, now)
       THEN /\ lastModelCheckMs' = now
            /\ \E loaded \in env.modelFiles : cachedModel' = AfterLoad(cachedModel, loaded)
       ELSE UNCHANGED modelCache
    /\ Proceed(i, [cyc[i] EXCEPT !.pc = "prof_select"])
    /\ UNCHANGED <<sched, store, previousPrices, sent, request, mig, adapterState>>

ProfSelect(i) ==
    /\ Alive /\ ~poolEnded /\ cyc[i].pc = "prof_select"
    /\ LET rows == ProfilingRows(markets, market_profiles, cachedModel, ProfileLimit)
       IN  Proceed(i, IF rows = <<>> THEN AfterStage(cyc[i], "profiling")
                      ELSE [cyc[i] EXCEPT !.pc = "prof_upsert", !.rows = rows])
    /\ UNCHANGED <<sched, store, previousPrices, sent, request, mig, modelCache, adapterState>>

ProfUpsert(i) ==
    /\ Alive /\ ~poolEnded /\ cyc[i].pc = "prof_upsert"
    /\ market_profiles' = UpsertProfile(market_profiles, Head(cyc[i].rows), cachedModel)
    /\ Proceed(i, IF Tail(cyc[i].rows) = <<>> THEN AfterStage(cyc[i], "profiling")
                  ELSE [cyc[i] EXCEPT !.rows = Tail(@)])
    /\ UNCHANGED <<sched, markets, outcomes, snapshots_1m, deltas, classification_scores,
                   alert_state, previousPrices, sent, request, mig, modelCache, adapterState>>

\* ------------------------------------------------------ runDeltaComputation
Delta(i) ==
    /\ Alive /\ ~poolEnded /\ cyc[i].pc = "delta"
    /\ deltas' = BuildDeltaInsert(snapshots_1m, deltas)
    /\ Proceed(i, AfterStage(cyc[i], "delta"))
    /\ UNCHANGED <<sched, markets, outcomes, snapshots_1m, classification_scores,
                   market_profiles, alert_state, previousPrices, sent, request, mig, modelCache, adapterState>>

\* ------------------------------------------------------ runClassification
\* Every order in which a SELECT without ORDER BY may return the rows S.
SeqsOf(S) ==
    {q \in [1..Cardinality(S) -> S] : \A a, b \in 1..Cardinality(S) : a # b => q[a] # q[b]}

\* SELECT MAX(ts_minute) FROM deltas, then the input rows of that tick.
ClassSelect(i) ==
    /\ Alive /\ ~poolEnded /\ cyc[i].pc = "class_select"
    /\ LET ts == MaxTs(deltas)
       IN  IF IsNull(ts) THEN Proceed(i, AfterStage(cyc[i], "classification"))
           ELSE \E rows \in SeqsOf(ClassificationInputRows(deltas, markets, snapshots_1m,
                                                           market_profiles, ts[1])) :
                  Proceed(i, [cyc[i] EXCEPT !.pc = "class_signals", !.rows = rows])
    /\ UNCHANGED <<sched, store, previousPrices, sent, request, mig, modelCache, adapterState>>

\* fetchExternalSignals: each symbol's price arrives or its fetch fails.
ClassSignals(i) ==
    /\ Alive /\ cyc[i].pc = "class_signals"
    /\ \E fetched \in [Symbols -> {NULL} \cup {Some(x) : x \in env.spots}] :
         /\ \A y \in Symbols \ env.symbols : IsNull(fetched[y])
         /\ previousPrices' = PricesAfter(previousPrices, fetched)
         /\ LET x == ExternalSignalsOf(previousPrices, fetched)
                c == IF env.record
                     THEN [cyc[i] EXCEPT !.external = x, !.fetched = Some(fetched), !.signals = x]
                     ELSE [cyc[i] EXCEPT !.external = x]
            IN  Proceed(i, IF c.rows = <<>> THEN AfterStage(c, "classification")
                           ELSE [c EXCEPT !.pc = "class_upsert"])
    /\ UNCHANGED <<sched, store, sent, request, mig, modelCache, adapterState>>

\* The loop body for one row: score it and upsert its classification.
ClassUpsert(i) ==
    /\ Alive /\ ~poolEnded /\ cyc[i].pc = "class_upsert"
    /\ classification_scores' =
         UpsertClassification(classification_scores, Head(cyc[i].rows), cyc[i].external)
    /\ Proceed(i, IF Tail(cyc[i].rows) = <<>> THEN AfterStage(cyc[i], "classification")
                  ELSE [cyc[i] EXCEPT !.rows = Tail(@)])
    /\ UNCHANGED <<sched, markets, outcomes, snapshots_1m, deltas, market_profiles,
                   alert_state, previousPrices, sent, request, mig, modelCache, adapterState>>

\* ------------------------------------------------------ runAlerts
\* The loop goes on with the rows left, or runAlerts returns sentCount.
NextAlert(c, rest) ==
    IF rest = <<>> THEN AfterStage([c EXCEPT !.checkedAt = 0], "alerts")
    ELSE [c EXCEPT !.pc = "alert_check", !.rows = rest, !.checkedAt = 0]

\* The signature is recorded before the message is sent.
StateOnSendMarked(as, signature, t) == markSent(as, signature, t)

\* `await sendTelegramMessage(text); await markSent(signature)`: alert_state
\* is not written while the message is being sent.
StateOnSend(as, signature, t) == as

\* SELECT MAX(ts_minute) FROM classification_scores, then the candidate rows.
AlertSelect(i) ==
    /\ Alive /\ ~poolEnded /\ cyc[i].pc = "alert_select"
    /\ LET ts == MaxTs(classification_scores)
       IN  IF IsNull(ts) THEN Proceed(i, AfterStage(cyc[i], "alerts"))
           ELSE \E rows \in AlertSelections(classification_scores, deltas, snapshots_1m,
                                            markets, outcomes, ts[1]) :
                  Proceed(i, NextAlert(cyc[i], rows))
    /\ UNCHANGED <<sched, store, previousPrices, sent, request, mig, modelCache, adapterState>>

\* One row: no window triggers (continue), or canSend is asked.
AlertCheck(i) ==
    /\ Alive /\ cyc[i].pc = "alert_check"
    /\ LET row == Head(cyc[i].rows)
           bestWindow == pickBestTriggeredWindow(row)
       IN  IF IsNull(bestWindow) THEN Proceed(i, NextAlert(cyc[i], Tail(cyc[i].rows)))
           ELSE /\ ~poolEnded
                /\ IF canSend(alert_state, SignatureOf(row, bestWindow[1]), now)
                   THEN Proceed(i, [cyc[i] EXCEPT !.pc = "alert_send", !.checkedAt = now])
                   ELSE Proceed(i, NextAlert(cyc[i], Tail(cyc[i].rows)))
    /\ UNCHANGED <<sched, store, previousPrices, sent, request, mig, modelCache, adapterState>>

PendingSignature(c) == SignatureOf(Head(c.rows), pickBestTriggeredWindow(Head(c.rows))[1])

\* sendTelegramMessage resolves: the chat server took the message, or the
\* dispatcher is off and returned without sending.
AlertSendOk(i) ==
    /\ Alive /\ cyc[i].pc = "alert_send"
    /\ sent' = IF telegram = "off" THEN sent
               ELSE sent \cup {[signature |-> PendingSignature(cyc[i]), at |-> now,
                                checkedAt |-> cyc[i].checkedAt, cycle |-> i]}
    /\ alert_state' = StateOnSend(alert_state, PendingSignature(cyc[i]), now)
    /\ Proceed(i, [cyc[i] EXCEPT !.pc = "alert_mark"])
    /\ UNCHANGED <<sched, markets, outcomes, snapshots_1m, deltas, classification_scores,
                   market_profiles, previousPrices, request, mig, modelCache, adapterState>>

\* The failed send is caught for its row and the loop goes on.
SendThrewSkipped(c, signature) ==
    NextAlert([c EXCEPT !.unsent = Some(signature)], Tail(c.rows))

\* sendTelegramMessage rejects inside the loop of runAlerts, which has no
\* try: runAlerts rejects, cycle() catches.
SendThrew(c, signature) == [Failed(c) EXCEPT !.unsent = Some(signature)]

\* sendBot throws (a response that is neither ok nor 429), or the user
\* client does: runAlerts throws.
AlertSendFail(i) ==
    /\ Alive /\ cyc[i].pc = "alert_send" /\ telegram # "off"
    /\ alert_state' = StateOnSend(alert_state, PendingSignature(cyc[i]), now)
    /\ Proceed(i, SendThrew(cyc[i], PendingSignature(cyc[i])))
    /\ UNCHANGED <<sched, markets, outcomes, snapshots_1m, deltas, classification_scores,
                   market_profiles, previousPrices, sent, request, mig, modelCache, adapterState>>

\* The 429s are counted and the third one is thrown.
After429Capped(c, retry_after, t) ==
    IF c.retries >= 2 THEN [SendThrew(c, PendingSignature(c)) EXCEPT !.retries = @ + 1]
    ELSE [c EXCEPT !.pc = "alert_backoff", !.retries = @ + 1,
                   !.retrySeconds = Coalesce(retry_after, 1),
                   !.wakeAt = t + (Coalesce(retry_after, 1) \div 60)]

\* sendBot on a 429: retrySeconds = body?.parameters?.retry_after ?? 1, then
\* setTimeout(retrySeconds * 1000).  retries: the 429s of this invocation;
\* wakeAt: the minute before which the timer cannot fire.
After429(c, retry_after, t) ==
    [c EXCEPT !.pc = "alert_backoff", !.retries = @ + 1,
              !.retrySeconds = Coalesce(retry_after, 1),
              !.wakeAt = t + (Coalesce(retry_after, 1) \div 60)]

\* The chat server answers 429, with or without retry_after.
AlertSend429(i) ==
    /\ Alive /\ cyc[i].pc = "alert_send" /\ telegram = "bot"
    /\ cyc[i].retries < Max429
    /\ \E retry_after \in RetryAfters : Proceed(i, After429(cyc[i], retry_after, now))
    /\ UNCHANGED <<sched, store, previousPrices, sent, request, mig, modelCache, adapterState>>

\* The timer has fired: return sendBot(text), the message is posted again.
AlertResend(i) ==
    /\ Alive /\ cyc[i].pc = "alert_backoff" /\ now >= cyc[i].wakeAt
    /\ Proceed(i, [cyc[i] EXCEPT !.pc = "alert_send"])
    /\ UNCHANGED <<sched, store, previousPrices, sent, request, mig, modelCache, adapterState>>

\* markSent, then sentCount += 1.
AlertMark(i) ==
    /\ Alive /\ ~poolEnded /\ cyc[i].pc = "alert_mark"
    /\ alert_state' = markSent(alert_state, PendingSignature(cyc[i]), now)
    /\ Proceed(i, NextAlert([cyc[i] EXCEPT !.sentCount = @ + 1], Tail(cyc[i].rows)))
    /\ UNCHANGED <<sched, markets, outcomes, snapshots_1m, deltas, classification_scores,
                   market_profiles, previousPrices, sent, request, mig, modelCache, adapterState>>

\* ------------------------------------------------------ GET /api/movers
\* A request arrives with its query parameters.
Get ==
    /\ request.pc = "idle"
    /\ \E tab \in TabFilters : \E low \in BOOLEAN : \E sortDir \in env.sorts :
       \E page \in env.pages : \E pageSize \in env.pageSizes :
         request' = [IdleRequest EXCEPT !.pc = "count",
                                        !.query = [page |-> page, pageSize |-> pageSize],
                                        !.tab = tab,
                                        !.includeLowLiquidity = low, !.sortDir = sortDir,
                                        !.page = parsePage(page),
                                        !.pageSize = parsePageSize(pageSize)]
    /\ UNCHANGED <<sched, running, cyc, store, previousPrices, sent, mig, modelCache, adapterState>>

\* await pool.query(countQuery)
CountQuery ==
    /\ request.pc = "count"
    /\ LET totalRows ==
               CountMarkets(MoverSelection(
                   MoverJoin(deltas, markets, outcomes, snapshots_1m, classification_scores),
                   request.tab, request.includeLowLiquidity))
       IN  request' = [request EXCEPT !.pc = "lead", !.countTick = MaxTs(deltas),
                                      !.totalRows = totalRows,
                                      !.totalPages = TotalPages(totalRows, request.pageSize)]
    /\ UNCHANGED <<sched, running, cyc, store, previousPrices, sent, mig, modelCache, adapterState>>

\* await pool.query(leadQuery); an empty page is answered at once.
LeadQuery ==
    /\ request.pc = "lead"
    /\ \E leads \in LeadSelections(
             MoverSelection(
               MoverJoin(deltas, markets, outcomes, snapshots_1m, classification_scores),
               request.tab, request.includeLowLiquidity),
             request.sortDir, request.pageSize, (request.page - 1) * request.pageSize) :
         request' = [request EXCEPT !.pc = IF leads = <<>> THEN "done" ELSE "outcomes",
                                    !.leadRows = leads]
    /\ UNCHANGED <<sched, running, cyc, store, previousPrices, sent, mig, modelCache, adapterState>>

\* await pool.query(outcomesQuery); the response is assembled and returned.
OutcomesQuery ==
    /\ request.pc = "outcomes"
    /\ request' =
         [request EXCEPT
            !.pc = "done",
            !.data =
               MoversData(request.leadRows,
                          OutcomeRows(MoverJoin(deltas, markets, outcomes, snapshots_1m,
                                                classification_scores),
                                      request.leadRows, request.includeLowLiquidity))]
    /\ UNCHANGED <<sched, running, cyc, store, previousPrices, sent, mig, modelCache, adapterState>>

\* A query of the request rejects: the handler answers 500.
GetFail ==
    /\ request.pc \in {"count", "lead", "outcomes"}
    /\ request' = [request EXCEPT !.pc = "error"]
    /\ UNCHANGED <<sched, running, cyc, store, previousPrices, sent, mig, modelCache, adapterState>>

\* ------------------------------------------------------ specification
\* The steps of a running cycle.
CycleStep(i) ==
    \/ DbFail(i) \/ Fetch(i)
    \/ UpsertMarketStep(i) \/ UpsertOutcomeStep(i) \/ UpsertSnapshotStep(i)
    \/ ProfModel(i) \/ ProfSelect(i) \/ ProfUpsert(i) \/ Delta(i)
    \/ ClassSelect(i) \/ ClassSignals(i) \/ ClassUpsert(i)
    \/ AlertSelect(i) \/ AlertCheck(i) \/ AlertSendOk(i) \/ AlertSendFail(i)
    \/ AlertMark(i)

\* The worker process with everything that can happen to it.
Next ==
    \/ MigrateOk \/ MigrateFail \/ MainCycle \/ MainSetInterval
    \/ Clock \/ TimerFires \/ Signal \/ Exit
    \/ \E i \in CycleIds : CycleStep(i)

Spec == Init /\ [][Next]_vars

\* The worker left running (no signal, migrations succeed): the alerter over
\* enough minutes for a cooldown to expire.
InitAlerts ==
    InitWith(World(PolyOnly, {}, {}, AlertMaxTime, AlertMaxCycles, FALSE, FALSE), {"bot"})

NextRunning ==
    \/ MigrateOk \/ MainCycle \/ MainSetInterval \/ Clock \/ TimerFires
    \/ \E i \in CycleIds : CycleStep(i)

SpecAlerts == InitAlerts /\ [][NextRunning]_vars

\* The worker left running with both providers quoting and the price source up.
InitStore ==
    InitWith(World([k \in Keys |-> Probs], {100, 101}, Symbols, StoreMaxTime, StoreMaxCycles,
                   FALSE, FALSE), {"bot"})

SpecStore == InitStore /\ [][NextRunning]_vars

\* The worker left running with Polymarket quoting, and one GET on the movers
\* endpoint arriving at any moment.
InitRead ==
    InitWith(World(PolyOnly, {}, {}, ReadMaxTime, ReadMaxCycles, FALSE, FALSE), {"bot"})

NextRead ==
    \/ NextRunning
    \/ Get \/ CountQuery \/ LeadQuery \/ OutcomesQuery \/ GetFail

SpecRead == InitRead /\ [][NextRead]_vars

\* The worker left running with both providers quoting and the adapter calls
\* traced: an adapter may throw instead of returning.
InitIngest ==
    InitWith(Traced(World([k \in Keys |-> Probs], {}, {}, IngestMaxTime, IngestMaxCycles,
                          FALSE, FALSE)), {"bot"})

SpecIngest == InitIngest /\ [][NextRunning]_vars

\* A restarted worker whose first cycle has reached the delta stage, over a
\* database that earlier runs filled: a history of Polymarket quotes with
\* gaps (a market that hovered and may have jumped in the last minute), a
\* Kalshi quote in the minute before the last, and the Delta rows a previous
\* run left (none, those of the history before the latest minute, or those of
\* a run in the same minute that saw another Polymarket quote).
DeltaProbs(t) == IF t = DeltaMaxTick THEN {30000, 63338} ELSE {30000, 30004}

PolyHistories ==
    {h \in [0..DeltaMaxTick -> {NULL} \cup {Some(pr) : pr \in {30000, 30004, 63338}}] :
       \A t \in DOMAIN h : IsNull(h[t]) \/ h[t][1] \in DeltaProbs(t)}

HistorySnapshots(h1, h2) ==
    {SnapshotRowOf(OutcomeSnapshot(PolyKey, h1[t][1], t)) : t \in {u \in DOMAIN h1 : ~IsNull(h1[u])}}
      \cup {SnapshotRowOf(OutcomeSnapshot(KalshiKey, h2[t][1], t)) :
               t \in {u \in DOMAIN h2 : ~IsNull(h2[u])}}

QuotedKeys(sn) == {k \in Keys : \E r \in sn : KeyOf(r) = k}

InitDelta ==
    \E h1 \in PolyHistories :
    \E h2 \in [{DeltaMaxTick - 1} -> {NULL, Some(50000)}] :
    \E earlier \in {"none", "previous_minute", "same_minute"} :
      LET sn == HistorySnapshots(h1, h2)
          before == {r \in sn : Some(r.ts_minute) # MaxTs(sn)}
          other == {IF KeyOf(r) = PolyKey /\ Some(r.ts_minute) = MaxTs(sn)
                    THEN [r EXCEPT !.probability = 50000] ELSE r : r \in sn}
          mk == {MarketRowOf(OutcomeSnapshot(k, 50000, 0)) : k \in QuotedKeys(sn)}
      IN  /\ env = World([k \in Keys |-> {}], {}, {}, DeltaMaxTick, 1, FALSE, FALSE)
          /\ telegram = "bot"
          /\ now = DeltaMaxTick
          /\ mainPc = "await_cycle" /\ timerDue = FALSE /\ running = TRUE /\ ncyc = 1
          /\ cyc = [i \in CycleIds |->
                      IF i = 1 THEN [IdleCycle EXCEPT !.pc = "delta", !.tsMinute = DeltaMaxTick,
                                                      !.log = <<"snapshot", "profiling">>]
                      ELSE IdleCycle]
          /\ poolEnded = FALSE /\ exitCode = NULL
          /\ snapshots_1m = sn
          /\ markets = mk
          /\ outcomes = {OutcomeRowOf(OutcomeSnapshot(k, 50000, 0)) : k \in QuotedKeys(sn)}
          /\ market_profiles = {ProfileRowOf(m, NULL) : m \in mk}
          /\ deltas = CASE earlier = "none" -> {}
                         [] earlier = "previous_minute" -> BuildDeltaInsert(before, {})
                         [] earlier = "same_minute" -> BuildDeltaInsert(other, {})
          /\ classification_scores = {} /\ alert_state = {}
          /\ previousPrices = [y \in Symbols |-> NULL]
          /\ sent = {}
          /\ request = IdleRequest
          /\ mig = IdleMigration
          /\ cachedModel = NULL
          /\ lastModelCheckMs = NeverChecked
          /\ opinion = IdleOpinion
          /\ clob = IdleClob

NextDelta == \E i \in CycleIds : Delta(i)

SpecDelta == InitDelta /\ [][NextDelta]_vars

\* A restarted worker whose first cycle has reached runAlerts, over a database
\* that earlier runs filled.  Polymarket was quoted around 30, 10, 5 and 1
\* minutes ago (each quote may be missing) and is quoted at 0.5 now, with a
\* liquidity and a spread at, below or above the limits, or without them;
\* Kalshi moved by 10 pp in the last minute, on a liquid book.  The Delta and
\* Classification rows are those the pipeline computes from these snapshots.
AlerterHistory(t) ==
    CASE t = 0 -> {30000, 36000, 78000}
      [] t = AlerterTick - 10 -> {40000, 49000}
      [] t = AlerterTick - 5 -> {41000, 42000, 66000}
      [] OTHER -> {43000, 44000, 45000, 62000}

AlerterHistories ==
    {h \in [{0, AlerterTick - 10, AlerterTick - 5, AlerterTick - 1} ->
              {NULL} \cup {Some(pr) : pr \in UNION {AlerterHistory(t) : t \in 0..AlerterTick}}] :
       \A t \in DOMAIN h : IsNull(h[t]) \/ h[t][1] \in AlerterHistory(t)}

InitAlerter ==
    \E h \in AlerterHistories :
    \E liquidity \in {NULL, Some(MIN_LIQUIDITY_USD - 1), Some(MIN_LIQUIDITY_USD)} :
    \E spread \in {NULL, Some(MAX_SPREAD_PP * 100), Some(MAX_SPREAD_PP * 100 + 1)} :
      LET book(r, lq, sp) == [r EXCEPT !.liquidity_usd = lq, !.spread_pp = sp]
          sn == HistorySnapshots(h, [t \in {AlerterTick - 1} |-> Some(40000)])
                  \cup {book(SnapshotRowOf(OutcomeSnapshot(PolyKey, 50000, AlerterTick)),
                              liquidity, spread),
                        book(SnapshotRowOf(OutcomeSnapshot(KalshiKey, 50000, AlerterTick)),
                             Some(MIN_LIQUIDITY_USD), Some(500))}
          mk == {MarketRowOf(OutcomeSnapshot(k, 50000, 0)) : k \in Keys}
          pf == {ProfileRowOf(m, NULL) : m \in mk}
          dl == BuildDeltaInsert(sn, {})
      IN  /\ env = World([k \in Keys |-> {}], {}, {}, AlerterTick, 1, FALSE, FALSE)
          /\ telegram \in TelegramModes
          /\ now = AlerterTick
          /\ mainPc = "await_cycle" /\ timerDue = FALSE /\ running = TRUE /\ ncyc = 1
          /\ cyc = [i \in CycleIds |->
                      IF i = 1
                      THEN [IdleCycle EXCEPT
                              !.pc = "alert_select", !.tsMinute = AlerterTick,
                              !.log = <<"snapshot", "profiling", "delta", "classification">>]
                      ELSE IdleCycle]
          /\ poolEnded = FALSE /\ exitCode = NULL
          /\ snapshots_1m = sn
          /\ markets = mk
          /\ outcomes = {OutcomeRowOf(OutcomeSnapshot(k, 50000, 0)) : k \in Keys}
          /\ market_profiles = pf
          /\ deltas = dl
          /\ classification_scores =
               {ClassificationRowOf(r, NoSignals) :
                  r \in ClassificationInputRows(dl, mk, sn, pf, AlerterTick)}
          /\ alert_state = {}
          /\ previousPrices = [y \in Symbols |-> NULL]
          /\ sent = {}
          /\ request = IdleRequest
          /\ mig = IdleMigration
          /\ cachedModel = NULL
          /\ lastModelCheckMs = NeverChecked
          /\ opinion = IdleOpinion
          /\ clob = IdleClob

AlerterStep(i) ==
    \/ AlertSelect(i) \/ AlertCheck(i) \/ AlertSendOk(i) \/ AlertSendFail(i) \/ AlertMark(i)
    \/ DbFail(i)

NextAlerter == \E i \in CycleIds : AlerterStep(i)

SpecAlerter == InitAlerter /\ [][NextAlerter]_vars

\* The endpoint asked while the worker is between two cycles, over a database
\* that two ticks filled. Either a book of up to twelve liquid Polymarket
\* markets of one outcome, each but the first with a move of its own, asked
\* for any page of any size; or two markets of the same id at two providers,
\* of two outcomes each, every outcome new or moved up or down since the
\* tick before, the yes outcomes liquid or not, one of them perhaps scored
\* opaque_info_sensitive, asked for the first page.
MoverMarketIds ==
    <<"m1", "m2", "m3", "m4", "m5", "m6", "m7", "m8", "m9", "m10", "m11", "m12">>

PagingCounts == {0, 1, 9, 10, 11, 12}

PageParams ==
    {AbsentParam, TextParam, NumberParam(-10), NumberParam(0), NumberParam(10),
     NumberParam(25), NumberParam(30)}

PageSizeParams ==
    {AbsentParam, TextParam, NumberParam(0), NumberParam(99), NumberParam(100),
     NumberParam(115), NumberParam(1000), NumberParam(1010)}

LeadKeys ==
    {[provider |-> pr, market_id |-> "m1", outcome_id |-> o] :
       pr \in {"polymarket", "kalshi"}, o \in {"yes", "no"}}

\* The snapshot row of outcome k at tick t with the book given.
BookedSnapshot(k, p, t, liquidity) ==
    [SnapshotRowOf(OutcomeSnapshot(k, p, t)) EXCEPT
       !.liquidity_usd = Some(liquidity), !.spread_pp = Some(DefaultMaxSpread * 100)]

MoverStores ==
    {LET keys == {[provider |-> "polymarket", market_id |-> MoverMarketIds[i],
                   outcome_id |-> "yes"] : i \in 1..n}
         index(k) == CHOOSE i \in 1..n : MoverMarketIds[i] = k.market_id
     IN  [keys |-> keys,
          sn |-> {BookedSnapshot(k, 50000, MoversTick, DefaultMinLiquidity) : k \in keys}
                   \cup {BookedSnapshot(k, 50000 - 1000 * index(k), MoversTick - 1,
                                        DefaultMinLiquidity) : k \in {x \in keys : index(x) > 1}},
          cs |-> {},
          world |-> [pages |-> PageParams, pageSizes |-> PageSizeParams]] :
       n \in PagingCounts}
    \cup
    {[keys |-> LeadKeys,
      sn |-> {BookedSnapshot(k, 50000, MoversTick,
                             IF k.outcome_id = "yes" THEN liquidity[k.provider]
                             ELSE DefaultMinLiquidity) : k \in LeadKeys}
               \cup {BookedSnapshot(k, before[k][1], MoversTick - 1, DefaultMinLiquidity) :
                       k \in {x \in LeadKeys : ~IsNull(before[x])}},
      cs |-> IF scored
             THEN {[ts_minute |-> MoversTick, provider |-> "kalshi", market_id |-> "m1",
                    outcome_id |-> "no", opaque_score |-> 7000, exogenous_score |-> 1000,
                    label |-> "opaque_info_sensitive",
                    reason_tags |-> <<"opaque_info_prone_category">>,
                    model_version |-> "rules-v1"]}
             ELSE {},
      world |-> [pages |-> {AbsentParam}, pageSizes |-> {AbsentParam}]] :
       before \in [LeadKeys -> {NULL, Some(45000), Some(57000)}],
       liquidity \in [{"polymarket", "kalshi"} ->
                        {DefaultMinLiquidity - 1, DefaultMinLiquidity}],
       scored \in BOOLEAN}

InitMovers ==
    \E db \in MoverStores :
      /\ env = [World([k \in Keys |-> {}], {}, {}, MoversTick, 1, FALSE, FALSE) EXCEPT
                  !.sorts = SortDirs, !.pages = db.world.pages,
                  !.pageSizes = db.world.pageSizes]
      /\ telegram = "bot"
      /\ now = MoversTick
      /\ mainPc = "looping" /\ timerDue = FALSE /\ running = FALSE /\ ncyc = 1
      /\ cyc = [i \in CycleIds |-> IdleCycle]
      /\ poolEnded = FALSE /\ exitCode = NULL
      /\ snapshots_1m = db.sn
      /\ markets = {MarketRowOf(OutcomeSnapshot(k, 50000, 0)) : k \in db.keys}
      /\ outcomes = {OutcomeRowOf(OutcomeSnapshot(k, 50000, 0)) : k \in db.keys}
      /\ market_profiles = {}
      /\ deltas = BuildDeltaInsert(db.sn, BuildDeltaInsert(
                                              {x \in db.sn : x.ts_minute < MoversTick}, {}))
      /\ classification_scores = db.cs
      /\ alert_state = {}
      /\ previousPrices = [y \in Symbols |-> NULL]
      /\ sent = {}
      /\ request = IdleRequest
      /\ mig = IdleMigration
      /\ cachedModel = NULL
      /\ lastModelCheckMs = NeverChecked
      /\ opinion = IdleOpinion
      /\ clob = IdleClob

NextMovers == Get \/ CountQuery \/ LeadQuery \/ OutcomesQuery \/ GetFail

SpecMovers == InitMovers /\ [][NextMovers]_vars

\* A restarted worker whose first cycle has reached runClassification, over a
\* database that earlier runs filled with one Polymarket outcome: a market of
\* one of four kinds, not yet profiled or profiled by the rules or with a
\* loaded classifier of some prediction, quoted at 0.5 now and (perhaps) a
\* minute ago, with a volume and a spread around the rule limits, while the
\* price source has a BTC price stored or not and reports it unchanged or
\* moved by 1.2 %.
MarketKinds ==
    {[title |-> {"senate", "vote"}, normalized_category |-> "politics"],
     [title |-> {"btc", "above", "100k"}, normalized_category |-> "crypto"],
     [title |-> {"btc", "dominance"}, normalized_category |-> "crypto"],
     [title |-> {"nba", "trade"}, normalized_category |-> "other"],
     [title |-> {"rain", "tomorrow"}, normalized_category |-> "other"]}

Predictions ==
    {NULL, Some([anchorType |-> "spot_price_anchored", confidence |-> 60]),
     Some([anchorType |-> "spot_price_anchored", confidence |-> 90]),
     Some([anchorType |-> "live_score_anchored", confidence |-> 100]),
     Some([anchorType |-> "sports_team_news", confidence |-> 100])}

ClassifierQuotes == {49000, 46000, 44000, 41000, 35010, 35000, 65000}

InitClassifier ==
    \E kind \in MarketKinds :
    \E profiled \in BOOLEAN : \E model \in Predictions :
    \E before \in {NULL} \cup {Some(pr) : pr \in ClassifierQuotes} :
    \E volume \in {NULL, Some(9999), Some(50000)} :
    \E spread \in {NULL, Some(500), Some(800), Some(2000)} :
    \E stored \in {NULL, Some(10000)} :
      LET snap(p, t) ==
              [SnapshotRowOf(OutcomeSnapshot(PolyKey, p, t)) EXCEPT
                 !.market_title = kind.title, !.raw_category = NULL,
                 !.normalized_category = kind.normalized_category,
                 !.volume_24h_usd = volume, !.spread_pp = spread]
          sn == {snap(50000, ClassifierTick)}
                  \cup (IF IsNull(before) THEN {} ELSE {snap(before[1], ClassifierTick - 1)})
          mk == {[MarketRowOf(OutcomeSnapshot(PolyKey, 50000, 0)) EXCEPT
                    !.title = kind.title, !.raw_category = NULL,
                    !.normalized_category = kind.normalized_category]}
      IN  /\ profiled \/ IsNull(model)
          /\ env = World([k \in Keys |-> {}], {10000, 10120}, {"BTCUSDT"}, ClassifierTick, 1,
                         FALSE, FALSE)
          /\ telegram = "bot"
          /\ now = ClassifierTick
          /\ mainPc = "await_cycle" /\ timerDue = FALSE /\ running = TRUE /\ ncyc = 1
          /\ cyc = [i \in CycleIds |->
                      IF i = 1
                      THEN [IdleCycle EXCEPT !.pc = "class_select", !.tsMinute = ClassifierTick,
                                             !.log = <<"snapshot", "profiling", "delta">>]
                      ELSE IdleCycle]
          /\ poolEnded = FALSE /\ exitCode = NULL
          /\ snapshots_1m = sn
          /\ markets = mk
          /\ outcomes = {OutcomeRowOf(OutcomeSnapshot(PolyKey, 50000, 0))}
          /\ market_profiles = IF profiled THEN {ProfileRowOf(m, ConstantModel({kind.title}, model)) : m \in mk}
                              ELSE {}
          /\ deltas = BuildDeltaInsert(sn, {})
          /\ classification_scores = {} /\ alert_state = {}
          /\ previousPrices = [y \in Symbols |-> IF y = "BTCUSDT" THEN stored ELSE NULL]
          /\ sent = {}
          /\ request = IdleRequest
          /\ mig = IdleMigration
          /\ cachedModel = NULL
          /\ lastModelCheckMs = NeverChecked
          /\ opinion = IdleOpinion
          /\ clob = IdleClob

ClassifierStep(i) == ClassSelect(i) \/ ClassSignals(i) \/ ClassUpsert(i) \/ DbFail(i)

NextClassifier == \E i \in CycleIds : ClassifierStep(i)

SpecClassifier == InitClassifier /\ [][NextClassifier]_vars

\* The worker with an interval below a minute, so that the pipeline may run
\* again within a minute, where no query and no send fails and every run is
\* recorded.  Kalshi quotes a "btc above 100k" market at two probabilities,
\* Polymarket a politics market at one; the price source serves BTCUSDT.  No
\* outcome comes to qualify for an alert (the only one that moves has no
\* liquidity figure), so runAlerts ends at its checks.
InitIdem ==
    InitWith(World([k \in Keys |-> IF k = KalshiKey THEN Probs ELSE {50000}], {100, 101},
                   {"BTCUSDT"}, IdemMaxTime, IdemMaxCycles, TRUE, TRUE), {"bot"})

IdemStep(i) ==
    \/ Fetch(i)
    \/ UpsertMarketStep(i) \/ UpsertOutcomeStep(i) \/ UpsertSnapshotStep(i)
    \/ ProfModel(i) \/ ProfSelect(i) \/ ProfUpsert(i) \/ Delta(i)
    \/ ClassSelect(i) \/ ClassSignals(i) \/ ClassUpsert(i)
    \/ AlertSelect(i) \/ AlertCheck(i)

NextIdem ==
    \/ MigrateOk \/ MainCycle \/ MainSetInterval \/ Clock \/ IntervalElapses \/ TimerFires
    \/ \E i \in CycleIds : IdemStep(i)

SpecIdem == InitIdem /\ [][NextIdem]_vars

\* ====================================================== properties
Active(i) == cyc[i].pc \in ActivePcs

\* The stage a position belongs to.
StageOfPc(pc) ==
    CASE pc \in {"fetch", "upsert_market", "upsert_outcome", "upsert_snapshot"} -> "snapshot"
      [] pc \in {"prof_model", "prof_select", "prof_upsert"} -> "profiling"
      [] pc = "delta" -> "delta"
      [] pc \in {"class_select", "class_signals", "class_upsert"} -> "classification"
      [] OTHER -> "alerts"

\* The stages an invocation has started, in the order it started them.
Started(i) ==
    IF Active(i) THEN Append(cyc[i].log, StageOfPc(cyc[i].pc)) ELSE cyc[i].log

\* ------------------------------------------------------ C1
\* C1: at most one cycle is in progress at any time in a worker process; an
\* invocation of cycle() made while another is still in progress is skipped:
\* it runs no stage, then or later.
C1_AtMostOneCycle ==
    /\ [](\A i, j \in DOMAIN cyc : Active(i) /\ Active(j) => i = j)
    /\ [](\A i \in DOMAIN cyc : cyc[i].pc = "skipped" => cyc[i].log = <<>>)
    /\ [][\A i \in DOMAIN cyc :
            /\ (cyc[i].pc = "idle" /\ cyc'[i].pc # "idle" /\ \E j \in DOMAIN cyc : Active(j))
                  => cyc'[i].pc = "skipped"
            /\ cyc[i].pc = "skipped" => cyc'[i] = cyc[i]]_vars

\* An invocation has been skipped while another cycle is in the middle of a stage.
C1_Witness ==
    \E i, j \in DOMAIN cyc : cyc[i].pc = "skipped" /\ Active(j) /\ cyc[j].log # <<>>

\* ------------------------------------------------------ C5
\* C5: within a cycle a stage starts only after the stages it depends on have
\* returned (snapshot before profiling and delta, both before classification,
\* classification before alerts), no stage runs twice, and a cycle whose
\* stage failed runs nothing further.
Requires(stage) ==
    CASE stage = "snapshot" -> {}
      [] stage = "profiling" -> {"snapshot"}
      [] stage = "delta" -> {"snapshot"}
      [] stage = "classification" -> {"snapshot", "profiling", "delta"}
      [] stage = "alerts" -> {"snapshot", "delta", "classification"}

C5_StagesSequential ==
    /\ [](\A i \in DOMAIN cyc : \A n \in 1..Len(Started(i)) :
            /\ Requires(Started(i)[n]) \subseteq {Started(i)[m] : m \in 1..(n - 1)}
            /\ \A m \in 1..(n - 1) : Started(i)[m] # Started(i)[n])
    /\ [][\A i \in DOMAIN cyc : cyc[i].pc = "failed" => cyc'[i] = cyc[i]]_vars

\* One cycle ran all five stages and another failed after its second stage
\* or later.
C5_Witness ==
    \E i, j \in DOMAIN cyc :
        /\ cyc[i].pc = "done" /\ Len(cyc[i].log) = 5
        /\ cyc[j].pc = "failed" /\ Len(cyc[j].log) \in 2..4

\* ------------------------------------------------------ C6
\* C6: a cycle whose stage fails is ended (the failure logged) without
\* ending the process; the guard flag is released whenever no cycle is in
\* progress, so the next timer firing starts a new cycle.
C6_FailureReleasesGuard ==
    /\ []((\A i \in DOMAIN cyc : ~Active(i)) => ~running)
    /\ [][\A i \in DOMAIN cyc :
            /\ (Active(i) /\ cyc'[i].pc = "failed") => (exitCode' = exitCode /\ mainPc' = mainPc
                                                        /\ timerDue' = timerDue)
            /\ (cyc[i].pc = "idle" /\ cyc'[i].pc # "idle" /\ i > 1 /\ cyc[i - 1].pc = "failed")
                  => cyc'[i].pc = "fetch"]_vars

\* A cycle failed and the invocation after it is running a stage.
C6_Witness ==
    \E i \in DOMAIN cyc : i > 1 /\ cyc[i - 1].pc = "failed" /\ Active(i)

\* ------------------------------------------------------ C7
\* C7: on SIGINT or SIGTERM the pool is closed only after the cycle in
\* progress has finished: while the pool is ended no cycle is in progress.
C7_PoolClosedAfterDrain ==
    poolEnded => \A i \in DOMAIN cyc : ~Active(i)

\* ------------------------------------------------------ C8
\* C8: every Classification row has a Delta row and a Snapshot row with the
\* same (ts_minute, provider, market_id, outcome_id), and every Delta row has
\* a Snapshot row with the same identity.
C8_RowsHaveParents ==
    /\ \A c \in classification_scores :
          /\ \E d \in deltas : TsKeyOf(d) = TsKeyOf(c)
          /\ \E n \in snapshots_1m : TsKeyOf(n) = TsKeyOf(c)
    /\ \A d \in deltas : \E n \in snapshots_1m : TsKeyOf(n) = TsKeyOf(d)

\* Two ticks have been classified, while the later tick holds a snapshot
\* that a failed cycle left without a Delta row or without a Classification
\* row.
C8_Witness ==
    /\ \E c1, c2 \in classification_scores : c1.ts_minute < c2.ts_minute
    /\ \E i \in DOMAIN cyc : cyc[i].pc = "failed"
    /\ \E n \in snapshots_1m :
          /\ Some(n.ts_minute) = MaxTs(classification_scores)
          /\ \A c \in classification_scores : TsKeyOf(c) # TsKeyOf(n)

\* ------------------------------------------------------ C9
\* q is diff (in 0.001 pp) rounded to two decimals of a percentage point.
NearestHundredth(q, diff) == Abs(10 * q - diff) <= 5

\* v is the delta of snapshot b over a window of the given minutes: taken
\* against the most recent snapshot of the same outcome at or before
\* b.ts_minute - minutes, NULL when there is none.
IsDeltaOf(v, b, minutes) ==
    LET prior == {r \in snapshots_1m :
                    KeyOf(r) = KeyOf(b) /\ r.ts_minute <= b.ts_minute - minutes}
    IN  IF prior = {} THEN IsNull(v)
        ELSE /\ ~IsNull(v)
             /\ \E r \in prior :
                   /\ \A o \in prior : o.ts_minute <= r.ts_minute
                   /\ NearestHundredth(v[1], b.probability - r.probability)

\* C9: runDeltaComputation writes Delta rows only for the latest tick
\* t* = MAX(ts_minute) of Snapshot: one for every outcome with a snapshot at
\* t*, whose delta over each window w is the rounded difference, in
\* percentage points, to the most recent snapshot of that outcome at or
\* before t* - w, and NULL when there is none.
C9_DeltaOfLatestTick ==
    [][(\E i \in DOMAIN cyc : cyc[i].pc = "delta" /\ cyc'[i].pc = "class_select")
         => LET latest == {b \in snapshots_1m : Some(b.ts_minute) = MaxTs(snapshots_1m)}
            IN  /\ \A d \in deltas' : Some(d.ts_minute) # MaxTs(snapshots_1m) => d \in deltas
                /\ \A d \in deltas : Some(d.ts_minute) # MaxTs(snapshots_1m) => d \in deltas'
                /\ \A d \in deltas' : Some(d.ts_minute) = MaxTs(snapshots_1m)
                      => \E b \in latest : TsKeyOf(b) = TsKeyOf(d)
                /\ \A b \in latest :
                      /\ Cardinality({d \in deltas' : TsKeyOf(d) = TsKeyOf(b)}) = 1
                      /\ \A d \in deltas' : TsKeyOf(d) = TsKeyOf(b)
                            => \A n \in DOMAIN WINDOW_SPECS :
                                 IsDeltaOf(d.delta[WINDOW_SPECS[n].key], b,
                                           WINDOW_SPECS[n].minutes)]_vars

\* The delta stage has run over a history whose latest Polymarket snapshot
\* has none one minute before it but a Kalshi snapshot there (delta_1m is
\* taken against an older Polymarket snapshot and rounded down), whose 5m
\* reference is older than five minutes and differs from the snapshots
\* inside the window (rounded up), and which has no 10m reference.
C9_Witness ==
    /\ cyc[1].log = <<"snapshot", "profiling", "delta">>
    /\ \E d \in deltas : \E inside, ref \in snapshots_1m :
          /\ Some(d.ts_minute) = MaxTs(snapshots_1m) /\ KeyOf(d) = PolyKey
          /\ d.delta["1m"] = Some(3333) /\ d.delta["5m"] = Some(3334) /\ IsNull(d.delta["10m"])
          /\ KeyOf(ref) = PolyKey /\ ref.ts_minute < d.ts_minute - 5
          /\ KeyOf(inside) = PolyKey /\ inside.ts_minute > d.ts_minute - 5
          /\ inside.ts_minute < d.ts_minute - 1 /\ inside.probability # ref.probability
          /\ \A r \in snapshots_1m :
                KeyOf(r) = PolyKey => r.ts_minute \notin {d.ts_minute - 5, d.ts_minute - 1}
          /\ \E r \in snapshots_1m : KeyOf(r) = KalshiKey /\ r.ts_minute = d.ts_minute - 1

\* ------------------------------------------------------ C10
\* Run j is a re-run of the completed run i: the next completed run of the
\* pipeline, at the same ts_minute, given the same quotes and spot prices.
Rerun(i, j) ==
    /\ i < j /\ cyc[i].pc = "done" /\ cyc[j].pc = "done"
    /\ \A k \in DOMAIN cyc : (i < k /\ k < j) => cyc[k].pc = "skipped"
    /\ cyc[i].tsMinute = cyc[j].tsMinute
    /\ ~IsNull(cyc[i].quotes) /\ cyc[i].quotes = cyc[j].quotes
    /\ ~IsNull(cyc[i].fetched) /\ cyc[i].fetched = cyc[j].fetched

\* The rows run i left in table n (1: Snapshot, 2: Delta, 3: Classification,
\* 4: MarketProfile).
Left(i, n) == cyc[i].result[1][n]

\* C10 (as stated): re-running the full pipeline at the same ts_minute with
\* identical quotes and spot prices leaves the Snapshot, Delta and
\* Classification rows equal.
C10_RerunLeavesRowsEqual ==
    \A i, j \in DOMAIN cyc :
        Rerun(i, j) => \A n \in 1..3 : Left(j, n) = Left(i, n)

\* Run i computed a spot move of 0.8 % or more.
SpotShock(i) ==
    \/ Abs(Coalesce(cyc[i].signals.btc1mPct, 0)) >= 80
    \/ Abs(Coalesce(cyc[i].signals.eth1mPct, 0)) >= 80

\* C10 (amended): such a re-run leaves the Snapshot and Delta rows equal; it
\* leaves the Classification rows equal when the first run computed no spot
\* move of 0.8 % or more (the re-run measures the move against the price the
\* first run stored, hence 0 %) and the re-run profiled no further market.
C10_RerunLeavesRowsEqualAmended ==
    \A i, j \in DOMAIN cyc :
        Rerun(i, j)
          => /\ Left(j, 1) = Left(i, 1)
             /\ Left(j, 2) = Left(i, 2)
             /\ (~SpotShock(i) /\ Left(j, 4) = Left(i, 4)) => Left(j, 3) = Left(i, 3)

\* A run has been re-run in the minute after the first, over a Delta row
\* with a non-zero delta, with no spot shock and no new profile, and left
\* the classified rows as they were.
C10_Witness ==
    \E i, j \in DOMAIN cyc :
        /\ Rerun(i, j) /\ ~SpotShock(i) /\ Left(j, 4) = Left(i, 4)
        /\ cyc[i].tsMinute > 0
        /\ \E d \in Left(j, 2) : d.ts_minute = cyc[j].tsMinute /\ d.delta["1m"] \notin {NULL, Some(0)}
        /\ \E c \in Left(j, 3) : c.ts_minute = cyc[j].tsMinute

\* ------------------------------------------------------ C2
\* C2: once a message for a signature has been sent at t0, no later run sends
\* a message for the same signature before t0 + TELEGRAM_COOLDOWN_MINUTES.
C2_NoResendWithinCooldown ==
    \A a, b \in sent :
        (a.signature = b.signature /\ a.cycle < b.cycle)
          => b.at - a.at >= TELEGRAM_COOLDOWN_MINUTES

\* ------------------------------------------------------ C3
\* The row being handled at alert_check triggers a window; its signature.
CheckedSignature(i) ==
    LET row == Head(cyc[i].rows)
        best == pickBestTriggeredWindow(row)
    IN  IF cyc[i].pc # "alert_check" \/ IsNull(best) THEN NULL
        ELSE Some(SignatureOf(row, best[1]))

\* Cycle i failed sending the signature and no later cycle has sent it.
StillUnsent(i, signature) ==
    /\ cyc[i].pc = "failed" /\ cyc[i].unsent = Some(signature)
    /\ \A m \in sent : m.signature = signature => m.cycle < i

\* C3: when sending a message fails, no alert_state row is written for its
\* signature, so the cooldown check for it passes from then on and a later
\* cycle in which the outcome still qualifies attempts the send again.
C3_SendFailureNotRecorded ==
    /\ [][\A i \in DOMAIN cyc :
            (cyc[i].pc = "alert_send" /\ cyc'[i].pc = "failed") => alert_state' = alert_state]_vars
    /\ [](\A i \in DOMAIN cyc :
            ~IsNull(cyc[i].unsent) /\ StillUnsent(i, cyc[i].unsent[1])
              => canSend(alert_state, cyc[i].unsent[1], now))
    /\ [][\A i, j \in DOMAIN cyc :
            (/\ i < j /\ ~IsNull(CheckedSignature(j))
             /\ StillUnsent(i, CheckedSignature(j)[1])
             /\ cyc'[j] # cyc[j])
              => cyc'[j].pc \in {"alert_send", "failed"}]_vars

\* A send failed in one cycle and a later cycle has sent that signature.
C3_Witness ==
    \E i \in DOMAIN cyc : \E m \in sent :
        cyc[i].pc = "failed" /\ cyc[i].unsent = Some(m.signature) /\ m.cycle > i

\* ------------------------------------------------------ C4
\* The time alert_state records for the signature, or NULL.
LastSentAt(signature) ==
    LET result == {r \in alert_state : r.signature = signature}
    IN  IF result = {} THEN NULL ELSE Some((CHOOSE r \in result : TRUE).last_sent_at)

NoUpsertInProgress ==
    \A i \in CycleIds : cyc[i].pc \notin {"upsert_outcome", "upsert_snapshot"}

HasSnapshot(k) == \E s \in snapshots_1m : KeyOf(s) = k

\* C11: upsertSnapshot is atomic over its three writes: once it has returned
\* or failed, a Market row or an Outcome row is stored only if a Snapshot row
\* of the same keys is stored too.
C11_UpsertSnapshotAtomic ==
    NoUpsertInProgress =>
      /\ \A m \in markets : \E k \in Keys : MarketKeyOf(k) = MarketKeyOf(m) /\ HasSnapshot(k)
      /\ \A o \in outcomes : HasSnapshot(KeyOf(o))

\* ------------------------------------------------------ C12
\* The outcomes whose adapter handed a quote to invocation i.
Contributed(i) == {k \in Keys : ~IsNull(cyc[i].quotes) /\ ~IsNull(cyc[i].quotes[1][k])}

\* A row of tick ts for outcome k, quoted at p, is stored.
SnapshotStored(ts, k, p) ==
    \E s \in snapshots_1m : s.ts_minute = ts /\ KeyOf(s) = k /\ s.probability = p

\* The adapter loop of invocation i ends in this step.
AdaptersAnswer(i) == cyc[i].pc = "fetch" /\ cyc'[i].pc # "fetch"

\* C12: when fetchSnapshots of an enabled adapter throws, that adapter
\* contributes no snapshot to the tick, the other enabled adapters have been
\* invoked and their snapshots are upserted by the time the stage returns,
\* and the cycle goes on (to the upserts, or to the next stage when nothing
\* was returned); a disabled adapter is never invoked.
C12_AdapterFailureContained ==
    /\ [](\A i \in CycleIds :
            /\ \A name \in cyc[i].invoked : AdapterEnabled(name)
            /\ cyc[i].threw # {} =>
                 /\ \A name \in Range(Providers) : AdapterEnabled(name) => name \in cyc[i].invoked
                 /\ \A k \in Keys : k.provider \in cyc[i].threw =>
                      ~\E s \in snapshots_1m : s.ts_minute = cyc[i].tsMinute /\ KeyOf(s) = k
                 /\ "snapshot" \in Range(cyc[i].log) =>
                      \A k \in Contributed(i) :
                        SnapshotStored(cyc[i].tsMinute, k, cyc[i].quotes[1][k][1]))
    /\ [][\A i \in CycleIds :
            AdaptersAnswer(i) /\ cyc'[i].threw # {} =>
              /\ {KeyOf(SnapshotRowOf(s)) : s \in Range(cyc'[i].allSnapshots)} = Contributed(i)'
              /\ cyc'[i].pc = IF Contributed(i)' = {} THEN "prof_model" ELSE "upsert_market"]_vars

\* Polymarket threw, Kalshi's snapshot was upserted and the cycle completed.
C12_Witness ==
    \E i \in CycleIds :
      /\ cyc[i].threw = {"polymarket"} /\ Contributed(i) = {KalshiKey}
      /\ cyc[i].pc = "done"
      /\ SnapshotStored(cyc[i].tsMinute, KalshiKey, cyc[i].quotes[1][KalshiKey][1])

\* ------------------------------------------------------ C13
\* The positions whose next step writes one row of a stage's loop.
RowWritePcs ==
    {"upsert_market", "upsert_outcome", "upsert_snapshot", "prof_upsert", "class_upsert"}

\* C13: a database error while writing one row (a snapshot, profile or
\* classification upsert) does not end the cycle: no step taken from a
\* row-writing position leaves the invocation failed.
C13_RowErrorContinues ==
    [][\A i \in CycleIds : cyc[i].pc \in RowWritePcs => cyc'[i].pc # "failed"]_vars

\* ------------------------------------------------------ C14
\* The label Classification holds for outcome k at tick ts, if any.
ClassificationLabel(ts, k) ==
    LET c == {x \in classification_scores : x.ts_minute = ts /\ KeyOf(x) = k}
    IN  IF c = {} THEN NULL ELSE Some((CHOOSE x \in c : TRUE).label)

\* C14: a GET on the movers endpoint answers from one tick: the tick the
\* count was taken at is the tick of every lead market row and of every
\* outcome row of the response, and every label returned is the label
\* Classification holds for that outcome at that tick.
C14_ResponseOfOneTick ==
    request.pc = "done" =>
      \A m \in Range(request.data) :
        /\ Some(m.timestamp) = request.countTick
        /\ ClassificationLabel(m.timestamp,
                               [provider |-> m.provider, market_id |-> m.marketId,
                                outcome_id |-> m.leadOutcomeId]) = Some(m.label)
        /\ \A o \in m.outcomes :
             /\ Some(o.timestamp) = request.countTick
             /\ ClassificationLabel(o.timestamp,
                                    [provider |-> m.provider, market_id |-> m.marketId,
                                     outcome_id |-> o.outcomeId]) = Some(o.label)

\* ------------------------------------------------------ C15
\* The windows of a row whose delta reaches the window's threshold.
Triggered(row) ==
    {w \in Range(WINDOWS) :
       ~IsNull(row.delta[w]) /\ Abs(row.delta[w][1]) >= ALERT_THRESHOLDS[w] * 100}

\* |delta_v| / threshold[v] < |delta_w| / threshold[w]
RatioBelow(row, v, w) ==
    Abs(row.delta[v][1]) * ALERT_THRESHOLDS[w] < Abs(row.delta[w][1]) * ALERT_THRESHOLDS[v]

\* w has the maximum ratio among the triggered windows and is the earliest such.
IsBestWindow(row, w) ==
    /\ w \in Triggered(row)
    /\ \A v \in Triggered(row) :
         /\ ~RatioBelow(row, w, v)
         /\ WindowIndex(v) < WindowIndex(w) => RatioBelow(row, v, w)

\* C15: for the row runAlerts examines, pickBestTriggeredWindow gives the
\* triggered window of maximum |delta| / threshold, the earliest on a tie,
\* with its delta (direction UP iff the delta is >= 0); when no window
\* reaches its threshold the row goes on without an alert.
C15_BestTriggeredWindow ==
    [][\A i \in CycleIds :
         cyc[i].pc = "alert_check" /\ cyc'[i] # cyc[i] /\ cyc'[i].pc # "failed" =>
           LET row == Head(cyc[i].rows)
           IN  IF Triggered(row) = {} THEN cyc'[i].pc # "alert_send"
               ELSE /\ cyc'[i].pc = "alert_send"
                    /\ LET signature == PendingSignature(cyc'[i])
                       IN  /\ IsBestWindow(row, signature.window)
                           /\ signature.direction =
                                IF row.delta[signature.window][1] >= 0 THEN "UP" ELSE "DOWN"]_vars

\* Deltas 1m +7, 5m +9, 30m +20 (10m below its threshold): the alert is for
\* 30m, direction UP.
C15_Witness ==
    \E i \in CycleIds :
      /\ cyc[i].pc = "alert_send"
      /\ LET row == Head(cyc[i].rows)
         IN  /\ row.delta["1m"] = Some(700) /\ row.delta["5m"] = Some(900)
             /\ row.delta["10m"] = Some(100) /\ row.delta["30m"] = Some(2000)
             /\ PendingSignature(cyc[i]).window = "30m"
             /\ PendingSignature(cyc[i]).direction = "UP"

\* ------------------------------------------------------ C16
\* The rows of a table for the outcome of a signature, at the latest
\* classification tick.
AtLatestClassification(table, signature) ==
    {r \in table :
       /\ Some(r.ts_minute) = MaxTs(classification_scores)
       /\ KeyOf(r) = KeyOf(signature)}

\* C16: every message sent is for an outcome that, at the latest
\* classification tick, is labelled opaque_info_sensitive and has a snapshot
\* with a liquidity (not null) of at least MIN_LIQUIDITY_USD and a spread
\* (not null) of at most MAX_SPREAD_PP.
C16_OnlyQualifyingOutcomesAlerted ==
    \A m \in sent :
      /\ \E c \in AtLatestClassification(classification_scores, m.signature) :
           c.label = "opaque_info_sensitive"
      /\ \E s \in AtLatestClassification(snapshots_1m, m.signature) :
           /\ ~IsNull(s.liquidity_usd) /\ s.liquidity_usd[1] >= MIN_LIQUIDITY_USD
           /\ ~IsNull(s.spread_pp) /\ s.spread_pp[1] <= MAX_SPREAD_PP * 100

\* An alert went out for an outcome exactly at both limits.
C16_Witness ==
    \E m \in sent :
      \E s \in AtLatestClassification(snapshots_1m, m.signature) :
        s.liquidity_usd = Some(MIN_LIQUIDITY_USD) /\ s.spread_pp = Some(MAX_SPREAD_PP * 100)

\* ------------------------------------------------------ C17
\* The messages the chat server accepted from invocation i.
Dispatched(i) == {m \in sent : m.cycle = i}

\* C17: the number runAlerts returns is the number of messages it sent
\* through the dispatcher, whatever the dispatcher's configuration, and an
\* alert_state row is recorded only for a signature whose message was sent.
C17_CountIsMessagesSent ==
    /\ \A i \in CycleIds : cyc[i].pc = "done" => cyc[i].sentCount = Cardinality(Dispatched(i))
    /\ \A r \in alert_state : \E m \in sent : m.signature = r.signature

\* ------------------------------------------------------ C18
\* C18: every row of classification_scores ever written has its opaque and
\* its exogenous score within [0, 100], whatever the profile, confidence,
\* category, deltas, spread, volume and external price signals were.
C18_ScoresWithinRange ==
    \A r \in classification_scores :
      /\ 0 <= r.opaque_score /\ r.opaque_score <= 10000
      /\ 0 <= r.exogenous_score /\ r.exogenous_score <= 10000

\* A sports_team_news market of confidence 1 in category other moved by 15 pp
\* on a volume of 50000 and a spread of 5: the rules add up to 125, and the
\* row written has an opaque score of 100.
C18_Witness ==
    \E r \in classification_scores : \E p \in market_profiles : \E d \in deltas :
      /\ MarketKeyOf(p) = MarketKeyOf(r) /\ TsKeyOf(d) = TsKeyOf(r)
      /\ p.anchor_type = "sports_team_news" /\ p.confidence = 100
      /\ d.delta["1m"] = Some(1500)
      /\ "meaningful_size_move" \in Range(r.reason_tags)
      /\ "tight_spread" \in Range(r.reason_tags)
      /\ "opaque_info_prone_category" \in Range(r.reason_tags)
      /\ r.opaque_score = 10000

\* ------------------------------------------------------ C19
\* C19: the label of every classification row written is determined by its
\* two stored scores: opaque_info_sensitive iff opaque >= exogenous and
\* opaque >= 50; otherwise exogenous_arbitrage iff exogenous >= 50; otherwise
\* unclear, which is so exactly when both scores are below 50.
C19_LabelOfClampedScores ==
    \A r \in classification_scores :
      LET opaqueWins == r.opaque_score >= r.exogenous_score /\ r.opaque_score >= 5000
      IN  /\ r.label \in {"opaque_info_sensitive", "exogenous_arbitrage", "unclear"}
          /\ r.label = "opaque_info_sensitive" <=> opaqueWins
          /\ r.label = "exogenous_arbitrage" <=> (~opaqueWins /\ r.exogenous_score >= 5000)
          /\ r.label = "unclear" <=> (r.opaque_score < 5000 /\ r.exogenous_score < 5000)

\* A tie at 70: a live-score market in category other (10 + 60 exogenous)
\* that moved on a meaningful volume and a tight spread (20 + 20 + 20 + 10
\* opaque) is labelled opaque_info_sensitive.
C19_Witness ==
    \E r \in classification_scores :
      /\ r.opaque_score = 7000 /\ r.exogenous_score = 7000
      /\ r.label = "opaque_info_sensitive"

\* ------------------------------------------------------ C20
\* The column is NOT NULL DEFAULT 0: a profile without a confidence reads 0,
\* and an outcome without a profile reads NULL.
HasConfidence(row) == Coalesce(row.profile_confidence, 0) > 0

\* conf of the rule table: the confidence clamped to [0, 1], 0.7 without one.
TableConf(row) ==
    IF HasConfidence(row) THEN Max2(0, Min2(100, row.profile_confidence[1])) ELSE 70

\* The rule table: base 20 / 10 plus the effect of every rule whose trigger
\* holds; abrupt is the exogenous effect of an abrupt move of an anchored
\* (live_score or spot_price) market.
TableScores(row, external, abrupt) ==
    LET conf == TableConf(row)
        noProfile == IsNull(row.anchor_type)
        anchor == IF noProfile THEN "none" ELSE row.anchor_type[1]
        unknown == noProfile \/ anchor = "other_unknown"
        sportsContext == row.normalized_category = "sports" \/ row.title \cap sportsWords # {}
        cryptoContext == row.normalized_category = "crypto" \/ isCryptoLinked(row.title)
        anchored == anchor \in {"live_score_anchored", "spot_price_anchored"}
        abs1m == IF IsNull(row.delta_1m) THEN 0 ELSE Abs(row.delta_1m[1])
        shock == \/ ~IsNull(external.btc1mPct) /\ Abs(external.btc1mPct[1]) >= 80
                 \/ ~IsNull(external.eth1mPct) /\ Abs(external.eth1mPct[1]) >= 80
        On(trigger, effect) == IF trigger THEN effect ELSE 0
    IN  [opaque |->
           2000 + On(anchor = "sports_team_news", 45 * conf)
                + On(anchor = "crypto_news_security", 45 * conf)
                + On(anchor = "scheduled_macro_release", 35 * conf)
                + On(anchor = "policy_regulatory_decision", 30 * conf)
                + On(row.normalized_category \in {"politics", "policy", "macro", "other"}, 2000)
                + On(/\ ~IsNull(row.volume_24h_usd) /\ row.volume_24h_usd[1] >= 10000
                     /\ abs1m >= 400, 2000)
                + On(~IsNull(row.spread_pp) /\ row.spread_pp[1] <= 800, 1000)
                + On(abs1m >= 1500 /\ ~anchored, 1000),
         exogenous |->
           1000 + On(anchor = "live_score_anchored", 60 * conf)
                + On(anchor = "spot_price_anchored", 55 * conf)
                + On(unknown /\ sportsContext, 1500)
                + On(unknown /\ cryptoContext, 1000)
                + On(anchor = "spot_price_anchored" /\ shock, 1800)
                + On(abs1m >= 1500 /\ anchored, abrupt)]

\* The three worked cases of the rule table.
IsSpotShockCase(row, external) ==
    /\ row.anchor_type = Some("spot_price_anchored") /\ row.profile_confidence = Some(90)
    /\ row.delta_1m = Some(900) /\ external.btc1mPct = Some(120)
    /\ IsNull(row.volume_24h_usd) /\ IsNull(row.spread_pp)
    /\ row.normalized_category = "crypto"

IsPoliticsCase(row) ==
    /\ row.normalized_category = "politics" /\ IsNull(row.anchor_type)
    /\ row.delta_1m = Some(600) /\ row.volume_24h_usd = Some(50000)
    /\ row.spread_pp = Some(500) /\ row.title \cap (sportsWords \cup cryptoWords) = {}

IsOtherCase(row) ==
    /\ row.normalized_category = "other" /\ IsNull(row.anchor_type)
    /\ row.delta_1m = Some(100) /\ row.spread_pp = Some(2000)
    /\ row.title \cap (sportsWords \cup cryptoWords) = {}

WorkedCases(row, external, c) ==
    /\ IsSpotShockCase(row, external) =>
         /\ c.exogenousRaw = 7750 /\ c.opaqueRaw = 2000 /\ c.label = "exogenous_arbitrage"
    /\ IsPoliticsCase(row) =>
         /\ c.opaqueRaw = 7000 /\ c.exogenousRaw = 1000 /\ c.label = "opaque_info_sensitive"
    /\ IsOtherCase(row) =>
         /\ c.opaqueRaw = 4000 /\ c.exogenousRaw = 1000 /\ c.label = "unclear"

\* The loop body of runClassification has run for the first row left.
Scored(i) == cyc[i].pc = "class_upsert" /\ classification_scores' # classification_scores

\* C20 as stated: the scores before clamping are the base plus the effects of
\* exactly the rules of the table whose trigger holds, the abrupt move of an
\* anchored market adding 12 * max(conf, 0.9); the three worked cases give
\* 77.5 / 20 exogenous_arbitrage, 70 / 10 opaque_info_sensitive and 40 / 10 unclear.
C20_ScoresAreTableSum ==
    [][\A i \in CycleIds : Scored(i) =>
         LET row == Head(cyc[i].rows)
             c == Classify(row, cyc[i].external)
             t == TableScores(row, cyc[i].external, 12 * Max2(TableConf(row), 90))
         IN  /\ c.opaqueRaw = t.opaque /\ c.exogenousRaw = t.exogenous
             /\ WorkedCases(row, cyc[i].external, c)]_vars

\* C20 amended: the same, the abrupt move of an anchored market adding
\* 12 * conf, with 0.9 in the place of 0.7 for a profile without a
\* confidence; the row written holds the clamped sums.
C20_ScoresAreTableSumOfConfidence ==
    [][\A i \in CycleIds : Scored(i) =>
         LET row == Head(cyc[i].rows)
             c == Classify(row, cyc[i].external)
             t == TableScores(row, cyc[i].external,
                              12 * (IF HasConfidence(row) THEN TableConf(row) ELSE 90))
         IN  /\ c.opaqueRaw = t.opaque /\ c.exogenousRaw = t.exogenous
             /\ WorkedCases(row, cyc[i].external, c)
             /\ \E r \in classification_scores' :
                  /\ TsKeyOf(r) = TsKeyOf(row)
                  /\ r.opaque_score = Max2(0, Min2(10000, t.opaque))
                  /\ r.exogenous_score = Max2(0, Min2(10000, t.exogenous))]_vars

\* The crypto spot shock has been scored: 10 + 55 * 0.9 + 18 = 77.5 against
\* 20, stored as exogenous_arbitrage.
C20_Witness ==
    \E r \in classification_scores : \E p \in market_profiles : \E d \in deltas :
      /\ MarketKeyOf(p) = MarketKeyOf(r) /\ TsKeyOf(d) = TsKeyOf(r)
      /\ p.anchor_type = "spot_price_anchored" /\ p.confidence = 90
      /\ d.delta["1m"] = Some(900)
      /\ r.reason_tags = <<"anchor_spot_price", "spot_price_shock">>
      /\ r.exogenous_score = 7750 /\ r.opaque_score = 2000
      /\ r.label = "exogenous_arbitrage"

\* ------------------------------------------------------ C21
\* The row as it would be scored had it moved by just under 15 pp: every
\* other rule fires or not as for the row itself.
JustBelowAbrupt(row) == [row EXCEPT !.delta_1m = Some(1499)]

IsAbrupt(row) == ~IsNull(row.delta_1m) /\ Abs(row.delta_1m[1]) >= 1500

IsAnchored(row) ==
    row.anchor_type \in {Some("live_score_anchored"), Some("spot_price_anchored")}

\* What the abrupt move of the row adds to the two scores, and its tag in
\* the row written.
AbruptEffect(i, opaque, exogenous) ==
    LET row == Head(cyc[i].rows)
        c == Classify(row, cyc[i].external)
        b == Classify(JustBelowAbrupt(row), cyc[i].external)
    IN  /\ c.opaqueRaw - b.opaqueRaw = opaque
        /\ c.exogenousRaw - b.exogenousRaw = exogenous
        /\ \E r \in classification_scores' :
             /\ TsKeyOf(r) = TsKeyOf(row)
             /\ "abrupt_micro_move" \in Range(r.reason_tags)

\* C21 as stated: a move of at least 15 pp adds 12 * max(conf, 0.9) to the
\* exogenous score of a live_score or spot_price anchored outcome, and 10 to
\* the opaque score of any other outcome; the tag abrupt_micro_move is added.
C21_AbruptAddsAtLeastNineTenths ==
    [][\A i \in CycleIds : Scored(i) /\ IsAbrupt(Head(cyc[i].rows)) =>
         LET row == Head(cyc[i].rows)
         IN  IF IsAnchored(row) THEN AbruptEffect(i, 0, 12 * Max2(TableConf(row), 90))
             ELSE AbruptEffect(i, 1000, 0)]_vars

\* C21 amended: the anchored outcome gets 12 * conf, conf being the profile's
\* clamped confidence, and 0.9 for a profile without a confidence.
C21_AbruptAddsConfidence ==
    [][\A i \in CycleIds : Scored(i) /\ IsAbrupt(Head(cyc[i].rows)) =>
         LET row == Head(cyc[i].rows)
         IN  IF IsAnchored(row)
             THEN AbruptEffect(i, 0, 12 * (IF HasConfidence(row) THEN TableConf(row) ELSE 90))
             ELSE AbruptEffect(i, 1000, 0)]_vars

\* A spot_price market of confidence 0.6 that moved by 15 pp has been scored:
\* 10 + 55 * 0.6 + 12 * 0.6 = 50.2.
C21_Witness ==
    \E r \in classification_scores : \E p \in market_profiles : \E d \in deltas :
      /\ MarketKeyOf(p) = MarketKeyOf(r) /\ TsKeyOf(d) = TsKeyOf(r)
      /\ p.anchor_type = "spot_price_anchored" /\ p.confidence = 60
      /\ d.delta["1m"] = Some(1500)
      /\ r.reason_tags = <<"anchor_spot_price", "abrupt_micro_move">>
      /\ r.exogenous_score = 5020

\* ------------------------------------------------------ C22
\* The request is answered by this step.
Answered == request.pc \in {"lead", "outcomes"} /\ request'.pc = "done"

\* The markets that qualify for the request, in the database as it is.
QualifyingMarkets ==
    {MarketKeyOf(r) :
       r \in MoverSelection(
               MoverJoin(deltas, markets, outcomes, snapshots_1m, classification_scores),
               request.tab, request.includeLowLiquidity)}

IsWhole(param) == param.kind = "number" /\ param.tenths % 10 = 0

\* C22: for every request of the movers endpoint, pageSize is clamped to
\* [10, 100] (50 when absent), page is at least 1 (1 when absent), totalRows
\* is the number of distinct qualifying markets, totalPages is
\* ceil(totalRows / pageSize), and the response holds exactly
\* min(pageSize, max(0, totalRows - (page - 1) * pageSize)) markets.
C22_Pagination ==
    [][Answered =>
         LET r == request'
             q == r.query
         IN  /\ r.pageSize >= 10 /\ r.pageSize <= 100
             /\ q.pageSize.kind = "absent" => r.pageSize = 50
             /\ IsWhole(q.pageSize) =>
                  r.pageSize = Max2(10, Min2(100, q.pageSize.tenths \div 10))
             /\ r.page >= 1
             /\ q.page.kind = "absent" => r.page = 1
             /\ IsWhole(q.page) => r.page = Max2(1, q.page.tenths \div 10)
             /\ r.totalRows = Cardinality(QualifyingMarkets)
             /\ r.totalPages * r.pageSize >= r.totalRows
             /\ (r.totalPages - 1) * r.pageSize < r.totalRows
             /\ Len(r.data) = Min2(r.pageSize,
                                   Max2(0, r.totalRows - (r.page - 1) * r.pageSize))
             /\ \A i, j \in 1..Len(r.data) :
                  MarketKeyOf([provider |-> r.data[i].provider,
                               market_id |-> r.data[i].marketId])
                    = MarketKeyOf([provider |-> r.data[j].provider,
                                   market_id |-> r.data[j].marketId]) => i = j]_vars

\* ------------------------------------------------------ C23
\* The rows of the latest tick that satisfy the filters of the request.
Qualifying ==
    MoverSelection(MoverJoin(deltas, markets, outcomes, snapshots_1m, classification_scores),
                   request.tab, request.includeLowLiquidity)

\* Row r is not behind row q: its delta[sortWindow] is at least as extreme in
\* the direction asked for, and it is without one only if q is.
NotBehind(r, q, sortDir) ==
    LET a == r.delta["1m"]
        b == q.delta["1m"]
    IN  /\ IsNull(a) => IsNull(b)
        /\ (~IsNull(a) /\ ~IsNull(b)) =>
             (IF sortDir = "ASC" THEN a[1] <= b[1] ELSE a[1] >= b[1])

\* leadQuery has returned.
LeadsRead == request.pc = "lead" /\ request'.pc \in {"outcomes", "done"}

\* C23: in a movers response each market appears at most once; its lead
\* outcome is the outcome of that market that satisfies the filters at the
\* latest tick and has the largest (desc) or smallest (asc) delta[sortWindow],
\* an outcome without a delta being lead only when no qualifying outcome of
\* the market has one; and the markets are ordered by their lead's delta in
\* the direction asked for, those without a delta last.
C23_LeadPerMarketInOrder ==
    [][/\ LeadsRead =>
            LET leads == request'.leadRows
            IN  /\ \A i, j \in 1..Len(leads) :
                     MarketKeyOf(leads[i]) = MarketKeyOf(leads[j]) => i = j
                /\ \A i \in 1..Len(leads) :
                     /\ leads[i] \in Qualifying
                     /\ \A r \in Qualifying :
                          MarketKeyOf(r) = MarketKeyOf(leads[i]) =>
                            NotBehind(leads[i], r, request.sortDir)
                /\ \A i, j \in 1..Len(leads) :
                     i < j => NotBehind(leads[i], leads[j], request.sortDir)
       /\ Answered =>
            /\ Len(request'.data) = Len(request'.leadRows)
            /\ \A i \in 1..Len(request'.data) :
                 /\ request'.data[i].provider = request'.leadRows[i].provider
                 /\ request'.data[i].marketId = request'.leadRows[i].market_id
                 /\ request'.data[i].leadOutcomeId = request'.leadRows[i].outcome_id]_vars

\* An ascending response of two markets: the lead of the first fell by 7 pp
\* and is in a market with an outcome that has no delta; the second market
\* has no delta at all and comes last.
C23_Witness ==
    /\ request.pc = "done" /\ request.sortDir = "ASC" /\ Len(request.data) = 2
    /\ \E o, x \in request.data[1].outcomes :
         /\ o.outcomeId = request.data[1].leadOutcomeId
         /\ o.deltasPp["1m"] = Some(-700)
         /\ IsNull(x.deltasPp["1m"])
    /\ \A o \in request.data[2].outcomes : IsNull(o.deltasPp["1m"])
    /\ request.data[2].outcomes # {}

\* ------------------------------------------------------ migrations
\* The worker is started against an empty or a migrated database and
\* migrates; it may fail, lose its connection, and be started again.
InitMigrate ==
    \E dir \in SqlDirs : \E migrated \in BOOLEAN :
      /\ env = World([k \in Keys |-> {}], {}, {}, 0, 0, FALSE, FALSE)
      /\ telegram = "bot"
      /\ now = 0
      /\ mainPc = "migrate" /\ timerDue = FALSE /\ running = FALSE /\ ncyc = 0
      /\ cyc = [i \in CycleIds |-> IdleCycle]
      /\ poolEnded = FALSE /\ exitCode = NULL
      /\ markets = {} /\ outcomes = {} /\ snapshots_1m = {} /\ deltas = {}
      /\ classification_scores = {} /\ market_profiles = {} /\ alert_state = {}
      /\ previousPrices = [y \in Symbols |-> NULL]
      /\ sent = {}
      /\ request = IdleRequest
      /\ cachedModel = NULL
      /\ lastModelCheckMs = NeverChecked
      /\ opinion = IdleOpinion
      /\ clob = IdleClob
      /\ mig = IF migrated
               THEN [IdleMigration EXCEPT !.pc = "create", !.run = 1, !.dir = dir,
                       !.tableExists = TRUE, !.recorded = {"001_init.sql"},
                       !.effects = {"001_init.sql"}, !.applied = <<"001_init.sql">>]
               ELSE [IdleMigration EXCEPT !.pc = "create", !.run = 1, !.dir = dir]

NextMigrate ==
    \/ MigCreate \/ MigReaddir \/ MigSelect \/ MigReadFile \/ MigBegin \/ MigSql
    \/ MigInsert \/ MigCommit \/ MigThrow \/ MigCatch \/ MigRollback \/ ConnLost \/ Restart

SpecMigrate == InitMigrate /\ [][NextMigrate]_vars

\* C24: runMigrations is idempotent: over all starts of the worker the SQL of
\* a file is committed at most once and in ascending name order, the SQL of
\* a file recorded in schema_migrations is not sent again, and a run that
\* finds every file recorded changes nothing in the database.
Ascending(names) ==
    \A i, j \in DOMAIN names : i < j => NameBefore(names[i], names[j])

Database(m) == <<m.tableExists, m.recorded, m.effects, m.applied>>

C24_MigrationsIdempotent ==
    /\ [](Ascending(mig.applied))
    /\ [][mig.pc = "sql" /\ mig'.pc = "insert" => MigName \notin mig.recorded]_vars
    /\ [][mig.tableExists /\ {n \in mig.dir : IsSqlFile(n)} \subseteq mig.recorded
            /\ mig.pc \notin {"sql", "insert", "commit", "rollback"}
            => Database(mig') = Database(mig)]_vars

\* The first file was applied by an earlier start; this one skipped it,
\* applied the second and returned.
C24_Witness ==
    /\ mig.pc = "done" /\ mig.run > 1
    /\ mig.applied = <<"001_init.sql", "002_more.sql">>
    /\ mig.recorded = {"001_init.sql", "002_more.sql"}

\* The SQL of a file is committed if and only if its schema_migrations row is.
FileAndRowTogether ==
    \A n \in Range(MigrationNameOrder) : (n \in mig.recorded) <=> (n \in mig.effects)

\* C25: each file is applied in one transaction: when runMigrations has
\* returned or thrown, the SQL of every file is committed if and only if its
\* schema_migrations row is.
C25_FileAndRowTogether == mig.pc \in {"done", "failed"} => FileAndRowTogether

\* While the pool's client keeps its connection the migrations are
\* idempotent and atomic per file.
MigrationsOnOneClient ==
    /\ [](mig.losses = 0 => C25_FileAndRowTogether /\ Ascending(mig.applied))
    /\ [](mig.losses = 0 /\ mig.txn = "none" => FileAndRowTogether)

\* ------------------------------------------------------ startup
Settled(i) == cyc[i].pc \in {"done", "failed", "skipped"}

\* cycle() is called in this step.
CycleCalled == ncyc' = ncyc + 1

\* An invocation of cycle() ends in its catch clause in this step.
CycleFails == \E i \in CycleIds : cyc[i].pc # "failed" /\ cyc'[i].pc = "failed"

ProfiledTitles ==
    {[title |-> {"senate", "vote"}, normalized_category |-> "politics"],
     [title |-> {"nba", "trade"}, normalized_category |-> "other"],
     [title |-> {"rain", "tomorrow"}, normalized_category |-> "other"]}

\* What the classifiers on file predict (for every title alike).
ProfilerPredictions ==
    {[anchorType |-> "spot_price_anchored", confidence |-> 90],
     [anchorType |-> "live_score_anchored", confidence |-> 50],
     [anchorType |-> "sports_team_news", confidence |-> 100]}

ProfilerTitles == {k.title : k \in ProfiledTitles} \cup {QuoteInfo(KalshiKey).marketTitle}

ProfilerModels == {ConstantModel(ProfilerTitles, Some(p)) : p \in ProfilerPredictions}

SpotModel ==
    ConstantModel(ProfilerTitles, Some([anchorType |-> "spot_price_anchored", confidence |-> 90]))

\* The files the worker may find at MODEL_PATH: never one, always the same
\* valid one, or at each read none or any of the valid ones.
ProfilerModelFiles == {{NULL}, {SpotModel}, {NULL} \cup ProfilerModels}

\* The store holds two markets and the profiles earlier runs (of this or an
\* earlier process, with or without a classifier) wrote; runMarketProfiling
\* is about to run, the classifier file was never read by this process.
InitProfiler ==
    \E kind \in ProfiledTitles : \E files \in ProfilerModelFiles :
    \E had \in {<<"none", "none">>, <<"rules", "none">>, <<"hybrid", "rules">>,
                <<"hybrid", "hybrid">>} :
      LET poly == [MarketRowOf(OutcomeSnapshot(PolyKey, 50000, 0)) EXCEPT
                     !.title = kind.title, !.raw_category = NULL,
                     !.normalized_category = kind.normalized_category]
          kalshi == MarketRowOf(OutcomeSnapshot(KalshiKey, 50000, 0))
          profile(m, h) == IF h = "none" THEN {}
                           ELSE IF h = "rules" THEN {ProfileRowOf(m, NULL)}
                           ELSE {ProfileRowOf(m, SpotModel)}
      IN  /\ env = [World([k \in Keys |-> {}], {}, {}, ProfilerMaxTime, 1, FALSE, FALSE)
                      EXCEPT !.modelFiles = files]
          /\ telegram = "bot"
          /\ now = 0
          /\ mainPc = "await_cycle" /\ timerDue = FALSE /\ running = TRUE /\ ncyc = 1
          /\ cyc = [i \in CycleIds |->
                      IF i = 1
                      THEN [IdleCycle EXCEPT !.pc = "prof_model", !.log = <<"snapshot">>]
                      ELSE IdleCycle]
          /\ poolEnded = FALSE /\ exitCode = NULL
          /\ markets = {poly, kalshi}
          /\ outcomes = {} /\ snapshots_1m = {} /\ deltas = {}
          /\ market_profiles = profile(poly, had[1]) \cup profile(kalshi, had[2])
          /\ classification_scores = {} /\ alert_state = {}
          /\ previousPrices = [y \in Symbols |-> NULL]
          /\ sent = {}
          /\ request = IdleRequest
          /\ mig = IdleMigration
          /\ cachedModel = NULL
          /\ lastModelCheckMs = NeverChecked
          /\ opinion = IdleOpinion
          /\ clob = IdleClob

\* runMarketProfiling has returned; the stage runs again in the next cycle,
\* over the same markets.
ProfAgain(i) ==
    /\ Alive /\ cyc[i].pc = "delta"
    /\ Proceed(i, [IdleCycle EXCEPT !.pc = "prof_model", !.tsMinute = now, !.log = <<"snapshot">>])
    /\ UNCHANGED <<sched, store, previousPrices, sent, request, mig, modelCache, adapterState>>

ProfilerStep(i) == ProfModel(i) \/ ProfSelect(i) \/ ProfUpsert(i) \/ ProfAgain(i)

NextProfiler == Clock \/ \E i \in CycleIds : ProfilerStep(i)

\* Every run of the stage goes on until it returns, and is followed by another.
SpecProfiler ==
    InitProfiler /\ [][NextProfiler]_vars /\ WF_vars(\E i \in CycleIds : ProfilerStep(i))

ActiveVersion == IF IsNull(cachedModel) THEN RULES_MODEL_VERSION ELSE HYBRID_MODEL_VERSION

ProfilesOf(m) == {q \in market_profiles : MarketKeyOf(q) = MarketKeyOf(m)}

\* The profile row written in this step, if one is.
Written == market_profiles' \ market_profiles

\* The run selects at most its batch limit, and a market whose profile
\* carries the active version is not written.
ProfilerWritesOnlyStale ==
    /\ [][\A i \in CycleIds :
            cyc[i].pc = "prof_select" /\ cyc'[i].pc = "prof_upsert" =>
              Len(cyc'[i].rows) <= ProfileLimit]_vars
    /\ [][\A i \in CycleIds :
            cyc[i].pc = "prof_upsert" /\ cyc'[i] # cyc[i] =>
              /\ \A q \in ProfilesOf(Head(cyc[i].rows)) : q.model_version # ActiveVersion
              /\ \A w \in Written : /\ MarketKeyOf(w) = MarketKeyOf(Head(cyc[i].rows))
                                     /\ w.model_version = ActiveVersion]_vars

HasCryptoContext(row) ==
    row.normalized_category = "crypto" \/ includesAny(row.title, CRYPTO_KEYWORDS)

HasSportsContext(row) ==
    row.normalized_category = "sports" \/ includesAny(row.title, SPORTS_KEYWORDS)

\* One of the two hard rules decides the row before the classifier is asked.
HardRuleApplies(row) ==
    \/ /\ HasCryptoContext(row) /\ includesAny(row.title, PRICE_ANCHOR_KEYWORDS)
       /\ row.title \cap DigitTokens # {}
    \/ /\ HasSportsContext(row) /\ matchesAny(row.title, LIVE_SCORE_PATTERNS)
       /\ ~matchesAny(row.title, TEAM_NEWS_PATTERNS)

\* The prediction names an anchor the row's context does not allow.
OutOfContext(row, prediction) ==
    \/ prediction.anchorType = "spot_price_anchored" /\ ~HasCryptoContext(row)
    \/ prediction.anchorType = "live_score_anchored" /\ ~HasSportsContext(row)

\* The fallback rule ladder: anchor type and confidence.
RuleLadder(row) ==
    IF matchesAny(row.title, MACRO_PATTERNS) THEN <<"scheduled_macro_release", 80>>
    ELSE IF HasCryptoContext(row) /\ matchesAny(row.title, CRYPTO_NEWS_PATTERNS)
            /\ ~matchesAny(row.title, LIVE_SCORE_PATTERNS)
    THEN <<"crypto_news_security", 80>>
    ELSE IF HasSportsContext(row) /\ matchesAny(row.title, TEAM_NEWS_PATTERNS)
    THEN <<"sports_team_news", 80>>
    ELSE IF matchesAny(row.title, POLICY_PATTERNS) THEN <<"policy_regulatory_decision", 65>>
    ELSE <<"other_unknown", 30>>

\* The profiles of the market after the step.
ProfilesAfter(m) == {q \in market_profiles' : MarketKeyOf(q) = MarketKeyOf(m)}

\* The run writes the profile of the row at the head of its batch in this
\* step, with a classifier loaded and no hard rule deciding the row.
ClassifierAsked(i) ==
    /\ cyc[i].pc = "prof_upsert" /\ cyc'[i] # cyc[i]
    /\ ~IsNull(cachedModel) /\ ~HardRuleApplies(Head(cyc[i].rows))

\* C28: a prediction of spot or live-score for a market whose context does
\* not match is rejected: the profile written is the one the fallback rule
\* ladder gives, as for a prediction below 0.55.
C28_RejectedPredictionFallsBack ==
    [][\A i \in CycleIds :
         LET row == Head(cyc[i].rows)
             prediction == PredictionOf(cachedModel, row)[1]
         IN  ClassifierAsked(i) /\ (OutOfContext(row, prediction) \/ prediction.confidence < 55)
             => \A q \in ProfilesAfter(row) :
                  <<q.anchor_type, q.confidence>> = RuleLadder(row)]_vars

\* The anchor type of a prediction out of context is never written, and a
\* prediction below 0.55 leaves the row to the rule ladder.
PredictionGated ==
    [][\A i \in CycleIds :
         LET row == Head(cyc[i].rows)
             prediction == PredictionOf(cachedModel, row)[1]
         IN  /\ ClassifierAsked(i) /\ OutOfContext(row, prediction)
                => \A q \in ProfilesAfter(row) : q.anchor_type # prediction.anchorType
             /\ ClassifierAsked(i) /\ prediction.confidence < 55
                => \A q \in ProfilesAfter(row) :
                     <<q.anchor_type, q.confidence>> = RuleLadder(row)]_vars

\* ------------------------------------------------------ the cached classifier
\* getModel() reads the file in this step.
FileRead == lastModelCheckMs' # lastModelCheckMs \/ cachedModel' # cachedModel

\* C29: a loaded classifier stays in use whatever later reads of the file
\* give: the cached model never becomes absent and changes only to a model
\* the file holds; the file is read at most once in 10 minutes while a model
\* is cached and at most once a minute while none is.
C29_ModelKeptAndReloadBounded ==
    /\ [][~IsNull(cachedModel) => ~IsNull(cachedModel')]_vars
    /\ [][cachedModel' # cachedModel => cachedModel' \in env.modelFiles \ {NULL}]_vars
    /\ [][FileRead =>
            /\ lastModelCheckMs' = now
            /\ now - lastModelCheckMs >=
                 (IF IsNull(cachedModel) THEN ModelRetryMinutes ELSE ModelReloadMinutes)]_vars

\* A classifier is cached and the file, which may be missing at any read,
\* was read again 10 minutes or more after the worker started.
C29_Witness ==
    /\ ~IsNull(cachedModel) /\ NULL \in env.modelFiles
    /\ lastModelCheckMs >= ModelReloadMinutes
    /\ \E i \in CycleIds : cyc[i].pc = "prof_select"

\* ------------------------------------------------------ external signals
\* runClassification is at its call of fetchExternalSignals, in a process
\* that has not fetched a price yet; the price source serves both symbols,
\* at times a price of 0, and at times fails.
InitSignals ==
    /\ env = World([k \in Keys |-> {}], SpotPrices, Symbols, 0, 1, FALSE, TRUE)
    /\ telegram = "bot"
    /\ now = 0
    /\ mainPc = "await_cycle" /\ timerDue = FALSE /\ running = TRUE /\ ncyc = 1
    /\ cyc = [i \in CycleIds |->
                IF i = 1
                THEN [IdleCycle EXCEPT !.pc = "class_signals",
                                       !.log = <<"snapshot", "profiling", "delta">>]
                ELSE IdleCycle]
    /\ poolEnded = FALSE /\ exitCode = NULL
    /\ markets = {} /\ outcomes = {} /\ snapshots_1m = {} /\ deltas = {}
    /\ classification_scores = {} /\ market_profiles = {} /\ alert_state = {}
    /\ previousPrices = [y \in Symbols |-> NULL]
    /\ sent = {}
    /\ request = IdleRequest
    /\ mig = IdleMigration
    /\ cachedModel = NULL
    /\ lastModelCheckMs = NeverChecked
    /\ opinion = IdleOpinion
    /\ clob = IdleClob

\* The next cycle's runClassification comes to its call of fetchExternalSignals.
SignalsAgain(i) ==
    /\ Alive /\ cyc[i].pc = "alert_select"
    /\ Proceed(i, [IdleCycle EXCEPT !.pc = "class_signals",
                                    !.log = <<"snapshot", "profiling", "delta">>])
    /\ UNCHANGED <<sched, store, previousPrices, sent, request, mig, modelCache, adapterState>>

NextSignals == \E i \in CycleIds : ClassSignals(i) \/ SignalsAgain(i)

SpecSignals == InitSignals /\ [][NextSignals]_vars

SignalField(y) == IF y = "BTCUSDT" THEN "btc1mPct" ELSE "eth1mPct"

\* pct (in 0.01 %) is (current - prev) / prev * 100, cut to the unit.
IsPctChange(pct, current, prev) ==
    /\ Abs(pct * prev - (current - prev) * 10000) < prev
    /\ (pct >= 0) = (current >= prev) \/ pct = 0

\* C30: fetchExternalSignals gives null for a symbol on its first successful
\* fetch, on a failed fetch and when the stored price is 0, else the change
\* in percent against the stored price; a successful fetch stores its price,
\* a failed one leaves the stored price.
C30_SignalsAgainstStoredPrice ==
    [][\A i \in CycleIds : \A y \in Symbols :
         cyc[i].pc = "class_signals" /\ cyc'[i].pc # "class_signals" =>
           LET fetched == cyc'[i].fetched[1][y]
               returned == cyc'[i].signals[SignalField(y)]
               prev == previousPrices[y]
           IN  IF IsNull(fetched)
               THEN IsNull(returned) /\ previousPrices'[y] = prev
               ELSE /\ previousPrices'[y] = fetched
                    /\ IF IsNull(prev) \/ prev = Some(0) THEN IsNull(returned)
                       ELSE /\ ~IsNull(returned)
                            /\ IsPctChange(returned[1], fetched[1], prev[1])]_vars

\* BTCUSDT was fetched at 101 after 100 (+1 %); the ETHUSDT fetch failed and
\* its stored price stayed.
C30_Witness ==
    \E i \in CycleIds :
      /\ cyc[i].pc = "alert_select"
      /\ cyc[i].signals.btc1mPct = Some(100) /\ previousPrices["BTCUSDT"] = Some(101)
      /\ IsNull(cyc[i].fetched[1]["ETHUSDT"]) /\ previousPrices["ETHUSDT"] = Some(0)

\* ------------------------------------------------------ Opinion: pacing
\* runSnapshotIngestion is about to call the adapters.
InitAdaptersWith(busy) ==
    /\ env = World([k \in Keys |-> {}], {}, {}, 0, 1, FALSE, FALSE)
    /\ telegram = "bot"
    /\ now = 0
    /\ mainPc = "await_cycle" /\ timerDue = FALSE /\ running = TRUE /\ ncyc = 1
    /\ cyc = [i \in CycleIds |-> IF i = 1 THEN [IdleCycle EXCEPT !.pc = "fetch"] ELSE IdleCycle]
    /\ poolEnded = FALSE /\ exitCode = NULL
    /\ markets = {} /\ outcomes = {} /\ snapshots_1m = {} /\ deltas = {}
    /\ classification_scores = {} /\ market_profiles = {} /\ alert_state = {}
    /\ previousPrices = [y \in Symbols |-> NULL]
    /\ sent = {}
    /\ request = IdleRequest
    /\ mig = IdleMigration
    /\ cachedModel = NULL
    /\ lastModelCheckMs = NeverChecked
    /\ opinion = [IdleOpinion EXCEPT !.busy = busy]
    /\ clob = IdleClob

InitAdapters == InitAdaptersWith(MaxLate)

NextOpinion ==
    \/ OpinionFetch \/ OpinionClock
    \/ \E c \in OpinionCalls :
         RateLimitedFetch(c) \/ PacerWakes(c) \/ Respond(c) \/ BackoffEnds(c)

\* One fetchSnapshots of the Opinion adapter, whose responses are 200 (a
\* page of 0, 1 or 2 markets for the listing), 429 or 500.
SpecOpinion == InitAdapters /\ [][NextOpinion]_vars

\* The same with every timer on time; what can run does run.
SpecOpinionLive == InitAdaptersWith(0) /\ [][NextOpinion]_vars /\ WF_vars(NextOpinion)

\* The last two request starts are at least REQUEST_SPACING_MS apart.
StartsSpaced == opinion.gap = <<>> \/ opinion.gap[1] >= REQUEST_SPACING_MS

\* C31: any two request starts of a cycle are at least REQUEST_SPACING_MS
\* apart, and nextAllowedStartMs advances with every request and never
\* moves backwards.
C31_RequestsSpaced ==
    /\ [](StartsSpaced)
    /\ [][opinion.pc # "idle" => opinion'.nextAllowedStartMs >= opinion.nextAllowedStartMs]_vars
    /\ [][\A c \in OpinionCalls :
            opinion.call[c].pc = "call" /\ opinion'.call[c].pc \in {"sleep", "inflight"} =>
              opinion'.nextAllowedStartMs >= opinion.nextAllowedStartMs + REQUEST_SPACING_MS]_vars

\* While every timer fires when it is due the starts are spaced, and every
\* request starts at its slot or later.
PacedWhileOnTime ==
    /\ [](~opinion.late => StartsSpaced)
    /\ [][opinion.pc # "idle" => opinion'.nextAllowedStartMs >= opinion.nextAllowedStartMs]_vars

\* ------------------------------------------------------ Polymarket: mapLimit
NextClob == MapLimit \/ \E w \in ClobWorkers : BookArrives(w)

\* One mapLimit of the Polymarket adapter over 0 to 4 token ids, the book
\* requests ending in any order, with a book or without.
SpecClob == InitAdapters /\ [][NextClob]_vars

InFlight == {w \in ClobWorkers : clob.worker[w].pc = "await"}

\* C33: at most CLOB_CONCURRENCY book requests are in flight, no token id is
\* requested twice, and when mapLimit returns every token id was requested
\* once and results[i] is the result of items[i].
C33_BoundedFanOut ==
    /\ Cardinality(InFlight) <= CLOB_CONCURRENCY
    /\ \A t \in Range(TokenIds) : clob.requested[t] <= 1
    /\ \A w, v \in InFlight : w # v => clob.worker[w].index # clob.worker[v].index
    /\ clob.pc = "returned" =>
         /\ \A t \in Range(TokenIds) : clob.requested[t] = IF t \in Range(clob.items) THEN 1 ELSE 0
         /\ \A x \in DOMAIN clob.items :
              ~IsNull(clob.results[x]) /\ clob.results[x][1][1] = clob.items[x]

\* Four token ids were fetched two at a time; mapLimit has returned, with
\* the second book missing.
C33_Witness ==
    /\ clob.pc = "returned" /\ Len(clob.items) = MaxTokens
    /\ clob.results[2] = Some(<<"t2", NULL>>) /\ clob.results[MaxTokens] = Some(<<"t4", Some("book")>>)

\* ------------------------------------------------------ Opinion: retries
Depths == OpinionCalls \ {0}

\* fetchJson of call c has thrown: fetchMarkets, and with it fetchSnapshots
\* (caught by runSnapshotIngestion), or fetchOrderDepth (caught in the
\* fan-out, the outcome gets no price and is skipped).
Thrown(o, c) == IF c = 0 THEN o.pc = "threw" ELSE o.call[c].pc = "threw"

HttpAwait(i) == Fetch(i) \/ ClassSignals(i) \/ AlertSendOk(i) \/ AlertSendFail(i)

\* What the process does by itself: main, the timer, and the steps of a
\* cycle that wait for the database only.
LocalStep ==
    \/ MigrateOk \/ MainCycle \/ MainSetInterval \/ Clock \/ TimerFires
    \/ \E i \in CycleIds :
         \/ DbFail(i)
         \/ UpsertMarketStep(i) \/ UpsertOutcomeStep(i) \/ UpsertSnapshotStep(i)
         \/ ProfModel(i) \/ ProfSelect(i) \/ ProfUpsert(i) \/ Delta(i)
         \/ ClassSelect(i) \/ ClassUpsert(i)
         \/ AlertSelect(i) \/ AlertCheck(i) \/ AlertMark(i)

InitHttp ==
    InitWith(World(PolyOnly, {}, {}, HttpMaxTime, HttpMaxCycles, FALSE, FALSE), {"bot"})

\* The worker left running, Polymarket quoting: the process takes every step
\* it can take; an endpoint answers or does not.
SpecHttp == InitHttp /\ [][NextRunning]_vars /\ WF_vars(LocalStep)

\* The same with endpoints that always answer, with a response or an error.
SpecHttpAnswered == SpecHttp /\ WF_vars(\E i \in CycleIds : HttpAwait(i))

\* C34: every started cycle finishes and releases the running guard, whether
\* or not the endpoints answer.
C34_EveryCycleReleasesTheGuard == [](running => <>~running)

\* With endpoints that answer, every cycle finishes, done or failed, and the
\* guard is released.
CyclesEndWhenAnswered ==
    /\ [](running => <>~running)
    /\ \A i \in CycleIds : [](cyc[i].pc # "idle" => <>(cyc[i].pc \in {"done", "failed", "skipped"}))

\* ------------------------------------------------------ one window set
\* The windows whose column the delta engine writes (delta_<key>).
EngineWindows == {WINDOW_SPECS[i].key : i \in DOMAIN WINDOW_SPECS}

\* The windows the read API sorts by, with the column of each.
DELTA_COLUMN_MAP == [w \in {"1m", "5m", "10m", "30m", "1h", "6h", "12h", "24h"} |-> w]

\* CREATE TABLE deltas of 001_init.sql: the windows of its delta_ columns.
DeltasTableColumns == {"3m", "9m", "30m", "1h", "3h", "6h", "12h", "24h"}

LegacyWindows == {"3m", "9m", "3h"}

\* The delta engine, the alerter and the read API use the same windows, none
\* of them a legacy one.
CodeWindowsAgree ==
    /\ Range(WINDOWS) = EngineWindows
    /\ DOMAIN ALERT_THRESHOLDS = EngineWindows
    /\ DOMAIN DELTA_COLUMN_MAP = EngineWindows
    /\ {DELTA_COLUMN_MAP[w] : w \in DOMAIN DELTA_COLUMN_MAP} \subseteq EngineWindows
    /\ EngineWindows \cap LegacyWindows = {}
    /\ \A d \in deltas : DOMAIN d.delta = EngineWindows

\* C35: the delta engine, the alerter, the read API and the delta columns
\* of the store have one window set, and none of them has a legacy window.
C35_OneWindowSet ==
    /\ CodeWindowsAgree
    /\ DeltasTableColumns = EngineWindows
    /\ DeltasTableColumns \cap LegacyWindows = {}
    /\ \A d \in deltas : DOMAIN d.delta \subseteq DeltasTableColumns

\* ------------------------------------------------------ a send that fails
\* The quote of the other outcome of the Polymarket market.
NoSnapshot(p, ts) ==
    [OutcomeSnapshot(PolyKey, p, ts) EXCEPT !.outcomeId = "no", !.outcomeLabel = "No"]

\* The first cycle has reached runAlerts over a liquid market of two
\* outcomes, both quoted at 0.5 now: Yes rose by 10 or 7 pp in the last
\* minute, No is new or fell by 10, 7 or 2 pp.
InitSendFail ==
    \E before \in {40000, 43000} : \E noBefore \in {NULL, Some(60000), Some(57000), Some(52000)} :
      LET sn == {SnapshotRowOf(OutcomeSnapshot(PolyKey, before, AlerterTick - 1)),
                 SnapshotRowOf(OutcomeSnapshot(PolyKey, 50000, AlerterTick)),
                 SnapshotRowOf(NoSnapshot(50000, AlerterTick))}
                  \cup (IF IsNull(noBefore) THEN {}
                        ELSE {SnapshotRowOf(NoSnapshot(noBefore[1], AlerterTick - 1))})
          mk == {MarketRowOf(OutcomeSnapshot(PolyKey, 50000, 0))}
          pf == {ProfileRowOf(m, NULL) : m \in mk}
          dl == BuildDeltaInsert(sn, {})
      IN  /\ env = World([k \in Keys |-> {}], {}, {}, AlerterTick, 1, FALSE, FALSE)
          /\ telegram \in TelegramModes
          /\ now = AlerterTick
          /\ mainPc = "await_cycle" /\ timerDue = FALSE /\ running = TRUE /\ ncyc = 1
          /\ cyc = [i \in CycleIds |->
                      IF i = 1
                      THEN [IdleCycle EXCEPT
                              !.pc = "alert_select", !.tsMinute = AlerterTick,
                              !.log = <<"snapshot", "profiling", "delta", "classification">>]
                      ELSE IdleCycle]
          /\ poolEnded = FALSE /\ exitCode = NULL
          /\ snapshots_1m = sn
          /\ markets = mk
          /\ outcomes = {OutcomeRowOf(OutcomeSnapshot(PolyKey, 50000, 0)),
                         OutcomeRowOf(NoSnapshot(50000, 0))}
          /\ market_profiles = pf
          /\ deltas = dl
          /\ classification_scores =
               {ClassificationRowOf(r, NoSignals) :
                  r \in ClassificationInputRows(dl, mk, sn, pf, AlerterTick)}
          /\ alert_state = {}
          /\ previousPrices = [y \in Symbols |-> NULL]
          /\ sent = {}
          /\ request = IdleRequest
          /\ mig = IdleMigration
          /\ cachedModel = NULL
          /\ lastModelCheckMs = NeverChecked
          /\ opinion = IdleOpinion
          /\ clob = IdleClob

\* runAlerts over these rows, each send taken or refused by the chat server.
SpecSendFail == InitSendFail /\ [][NextAlerter]_vars

SentBy(i) == {m \in sent : m.cycle = i}

Recorded == {r.signature : r \in alert_state}

\* C36: when the send for a row fails, runAlerts has thrown: the invocation
\* has failed without a count for the alerts stage, what it sent and
\* recorded before stays, the failed row is not recorded by the failure, and
\* the run sends and records nothing after it.
C36_SendFailureEndsTheRun ==
    /\ [](\A i \in CycleIds :
            ~IsNull(cyc[i].unsent) =>
              cyc[i].pc = "failed" /\ "alerts" \notin Range(cyc[i].log))
    /\ [][\A i \in CycleIds :
            IsNull(cyc[i].unsent) /\ ~IsNull(cyc'[i].unsent) =>
              /\ alert_state' = alert_state /\ sent' = sent
              /\ cyc'[i].sentCount = Cardinality(SentBy(i))]_vars
    /\ [][\A i \in CycleIds :
            ~IsNull(cyc[i].unsent) =>
              /\ SentBy(i)' = SentBy(i)
              /\ cyc'[i] = cyc[i]
              /\ alert_state \subseteq alert_state']_vars

\* The first row of the selection was sent and recorded, the send for the
\* second row failed: the run has ended with one signature recorded.
C36_Witness ==
    \E i \in CycleIds :
      /\ cyc[i].pc = "failed" /\ ~IsNull(cyc[i].unsent)
      /\ Cardinality(SentBy(i)) = 1
      /\ \E m \in SentBy(i) : m.signature # cyc[i].unsent[1] /\ m.signature \in Recorded
      /\ cyc[i].unsent[1] \notin Recorded

\* ------------------------------------------------------ sendBot on 429
Next429 == NextRunning \/ \E i \in CycleIds : AlertSend429(i) \/ AlertResend(i)

\* The worker left running with Polymarket quoting and a chat server that
\* answers 429 up to Max429 times per invocation.
Spec429 == InitHttp /\ [][Next429]_vars

\* sendBot has been answered 429 and has neither returned nor thrown.
Retrying(c) == c.retries > 0 /\ c.pc \in {"alert_send", "alert_backoff"}

\* C37: a 429 makes sendBot wait retry_after seconds (1 when absent) and post
\* again, whatever the number of 429s before; as long as the only answers
\* are 429 the send does not end, the invocation keeps the running guard, and
\* every invocation the timer starts meanwhile is skipped.
C37_RetriesWithoutCap ==
    /\ [][\A i \in CycleIds :
            cyc[i].pc = "alert_send" /\ cyc'[i].retries > cyc[i].retries =>
              /\ cyc'[i].pc = "alert_backoff"
              /\ cyc'[i].retrySeconds >= 1
              /\ cyc'[i].wakeAt * 60 <= now * 60 + cyc'[i].retrySeconds
              /\ cyc'[i].wakeAt * 60 > now * 60 + cyc'[i].retrySeconds - 60
              /\ sent' = sent /\ alert_state' = alert_state]_vars
    /\ [][\A i \in CycleIds :
            cyc[i].pc = "alert_backoff" /\ cyc'[i] # cyc[i] =>
              cyc'[i].pc = "alert_send" /\ now >= cyc[i].wakeAt
              /\ cyc'[i].rows = cyc[i].rows]_vars
    /\ [](\A i \in CycleIds : Retrying(cyc[i]) => running)
    /\ [][\A i, j \in CycleIds :
            Retrying(cyc[i]) /\ cyc[j].pc = "idle" /\ cyc'[j].pc # "idle" =>
              cyc'[j].pc = "skipped"]_vars

\* The chat server has answered 429 Max429 times, the last time asking for a
\* minute; the message is being posted again in a later minute, and the
\* invocation the timer started meanwhile was skipped.
C37_Witness ==
    \E i, j \in CycleIds :
      /\ cyc[i].pc = "alert_send" /\ cyc[i].retries = Max429 /\ cyc[i].retrySeconds = 60
      /\ now >= cyc[i].wakeAt
      /\ j > i /\ cyc[j].pc = "skipped"
      /\ running

\* ------------------------------------------------------ a provider that yields nothing
\* The worker left running and the endpoint asked: Polymarket quotes 0.4 or
\* 0.5, Kalshi 0.5, and at every tick either may yield nothing.
InitGap ==
    InitWith(World([k \in Keys |-> IF k = PolyKey THEN Probs ELSE {50000}], {}, {},
                   ReadMaxTime, ReadMaxCycles, FALSE, FALSE), {"bot"})

SpecGap == InitGap /\ [][NextRead]_vars

\* The outcome of the row was quoted at the tick of the row.
QuotedAt(key, ts) ==
    \E s \in snapshots_1m : KeyOf(s) = key /\ s.ts_minute = ts

\* C38: every Delta row, every Classification row, every row runAlerts
\* works on and every outcome in a response of the endpoint belongs to an
\* outcome that has a snapshot at the tick of the row; an outcome without a
\* snapshot at the latest tick has none of them at that tick.
C38_OnlyQuotedOutcomesAtATick ==
    /\ \A d \in deltas : QuotedAt(KeyOf(d), d.ts_minute)
    /\ \A c \in classification_scores : QuotedAt(KeyOf(c), c.ts_minute)
    /\ \A i \in CycleIds :
         cyc[i].pc \in {"alert_check", "alert_send", "alert_mark"} =>
           \A n \in DOMAIN cyc[i].rows :
             QuotedAt(KeyOf(cyc[i].rows[n]), cyc[i].rows[n].ts_minute)
    /\ \A n \in DOMAIN request.leadRows :
         QuotedAt(KeyOf(request.leadRows[n]), request.leadRows[n].ts_minute)
    /\ \A n \in DOMAIN request.data : \A o \in request.data[n].outcomes :
         QuotedAt([provider |-> request.data[n].provider,
                      market_id |-> request.data[n].marketId, outcome_id |-> o.outcomeId],
                     o.timestamp)

\* Polymarket was quoted at tick 0 and yielded nothing at tick 1, where Kalshi
\* was quoted: the second cycle is done, tick 1 has a Delta and a
\* Classification row for Kalshi only, and the endpoint has answered with
\* the Kalshi market of tick 1 alone.
C38_Witness ==
    /\ QuotedAt(PolyKey, 0) /\ ~QuotedAt(PolyKey, 1) /\ QuotedAt(KalshiKey, 1)
    /\ cyc[2].pc = "done"
    /\ {KeyOf(d) : d \in {x \in deltas : x.ts_minute = 1}} = {KalshiKey}
    /\ {KeyOf(c) : c \in {x \in classification_scores : x.ts_minute = 1}} = {KalshiKey}
    /\ \E d \in deltas : KeyOf(d) = PolyKey /\ d.ts_minute = 0
    /\ request.pc = "done" /\ Len(request.data) = 1
    /\ request.data[1].provider = "kalshi" /\ request.data[1].timestamp = 1

\* ------------------------------------------------------ pages of the movers endpoint
\* Eleven liquid Polymarket markets of one outcome at the latest tick, asked
\* for page 1 or 2 of size 10 (or the default size): every market moved by
\* an amount of its own, or m1 and m2 are new (no delta), or m1 and m2 moved
\* by the same amount.
TiedStores ==
    {LET keys == {[provider |-> "polymarket", market_id |-> MoverMarketIds[i],
                   outcome_id |-> "yes"] : i \in 1..TiedMarkets}
         index(k) == CHOOSE i \in 1..TiedMarkets : MoverMarketIds[i] = k.market_id
         moved(k) == IF tie = "equal" /\ index(k) = 2 THEN 1 ELSE index(k)
     IN  [keys |-> keys,
          sn |-> {BookedSnapshot(k, 50000, MoversTick, DefaultMinLiquidity) : k \in keys}
                   \cup {BookedSnapshot(k, 50000 - 1000 * moved(k), MoversTick - 1,
                                        DefaultMinLiquidity) :
                           k \in {x \in keys : tie = "null" => index(x) > 2}}] :
       tie \in {"none", "null", "equal"}}

InitTies ==
    \E db \in TiedStores :
      /\ env = [World([k \in Keys |-> {}], {}, {}, MoversTick, 1, FALSE, FALSE) EXCEPT
                  !.sorts = SortDirs, !.pages = {NumberParam(10), NumberParam(20)},
                  !.pageSizes = {AbsentParam, NumberParam(100)}]
      /\ telegram = "bot"
      /\ now = MoversTick
      /\ mainPc = "looping" /\ timerDue = FALSE /\ running = FALSE /\ ncyc = 1
      /\ cyc = [i \in CycleIds |-> IdleCycle]
      /\ poolEnded = FALSE /\ exitCode = NULL
      /\ snapshots_1m = db.sn
      /\ markets = {MarketRowOf(OutcomeSnapshot(k, 50000, 0)) : k \in db.keys}
      /\ outcomes = {OutcomeRowOf(OutcomeSnapshot(k, 50000, 0)) : k \in db.keys}
      /\ market_profiles = {}
      /\ deltas = BuildDeltaInsert(db.sn, BuildDeltaInsert(
                                              {x \in db.sn : x.ts_minute < MoversTick}, {}))
      /\ classification_scores = {}
      /\ alert_state = {}
      /\ previousPrices = [y \in Symbols |-> NULL]
      /\ sent = {}
      /\ request = IdleRequest
      /\ mig = IdleMigration
      /\ cachedModel = NULL
      /\ lastModelCheckMs = NeverChecked
      /\ opinion = IdleOpinion
      /\ clob = IdleClob

\* The endpoint asked over a database that does not change.
SpecTies == InitTies /\ [][NextMovers]_vars

\* The rows that pass selectionWhere for the request.
QualifyingRows ==
    MoverSelection(MoverJoin(deltas, markets, outcomes, snapshots_1m, classification_scores),
                   request.tab, request.includeLowLiquidity)

MarketsOn(page) == {MarketKeyOf(page[n]) : n \in DOMAIN page}

\* The page of the response and any page q the same request may get for
\* another page number have no market in common; the page has its share of
\* the qualifying markets, each once (so the pages together hold every
\* qualifying market once); the lead outcome of a market is among its outcomes.
PagesPartition ==
    /\ \A q \in 1..request.totalPages :
         q # request.page =>
           \A other \in LeadSelections(QualifyingRows, request.sortDir, request.pageSize,
                                       (q - 1) * request.pageSize) :
             MarketsOn(other) \cap MarketsOn(request.leadRows) = {}
    /\ Len(request.leadRows) =
         Min2(request.pageSize,
              Max2(0, CountMarkets(QualifyingRows) - (request.page - 1) * request.pageSize))
    /\ Cardinality(MarketsOn(request.leadRows)) = Len(request.leadRows)
    /\ \A n \in DOMAIN request.data :
         \E o \in request.data[n].outcomes : o.outcomeId = request.data[n].leadOutcomeId

\* No two qualifying markets sort equal: their rows have different deltas,
\* at most one of them none.
NoTies ==
    \A r, q \in QualifyingRows :
      MarketKeyOf(r) # MarketKeyOf(q) => r.delta["1m"] # q.delta["1m"]

\* C39: the pages 1..totalPages partition the qualifying markets, with ties
\* and missing deltas too.
C39_PagesPartition == request.pc = "done" => PagesPartition

\* The pages partition the qualifying markets when no two of them sort equal.
PagesPartitionWithoutTies == request.pc = "done" /\ NoTies => PagesPartition

====
